---------------------------- MODULE Spec2Model ----------------------------
(***************************************************************************)
(* A model of the sprites-docs documentation generators.                   *)
(*                                                                         *)
(* The schema-to-documentation compiler (generate-api-docs) is a set of    *)
(* pure functions over a fetched schema.  Each family of functions gets a  *)
(* specification whose initial states draw the function's inputs from      *)
(* bounded sets and whose actions apply the functions as the source        *)
(* computes them.                                                          *)
(*                                                                         *)
(* JavaScript strings are sequences of one-character strings, so that      *)
(* startsWith, slice, toLowerCase, trim, replace and the regular           *)
(* expressions of the source are computed character by character.  The     *)
(* definitions S_... spell out the string literals.                        *)
(***************************************************************************)
EXTENDS Naturals, Integers, Sequences, FiniteSets, TLC

VARIABLES
    step,                 \* the last function applied ("input" before any)
    goType,               \* formatType: the type descriptor given
    display,              \* formatType(goType)
    redisplay,            \* formatType(display)
    types,                \* schema.types: the type table
    fields,               \* convertTypeFieldsToProperties: the field list given
    depth,                \* convertTypeFieldsToProperties: the depth given
    properties,           \* convertTypeFieldsToProperties(fields, types, depth)
    endpoint,             \* the APIEndpoint being rendered
    sdk,                  \* the SDK examples found for the endpoint, by language
    responseCode,         \* generateResponseCode(endpoint, types)
    examplesArray,        \* generateExamplesArray(endpoint, types, go, js, py, elixir)
    httpExample,          \* generateHttpExample(endpoint, types)
    schemaEndpoints,      \* schema.endpoints
    versionId,            \* version.id
    categories,           \* generateVersionDocs: the sorted category keys
    endpointsByCategory,  \* generateVersionDocs: the endpoints of each category
    pages,                \* the endpoint sections of each category page
    sidebarItems,          \* generateSidebarItems(categories, endpointsByCategory, id)
    websocketMessages,    \* schema.websocket_messages: the message table
    fragment,             \* the outcome of a section renderer: its text or the error thrown
    pc,                   \* main: the statement it is at
    dirs,                 \* the directories under OUTPUT_BASE_DIR, as paths
    files,                \* the files under OUTPUT_BASE_DIR: their content by path
    dirEntries,           \* main: the entries of readdir still to visit
    versionIndex,         \* main: the index of the version in API_VERSIONS
    requests,             \* fetchAllData: the state of each of the five fetches
    categoryIndex,        \* generateVersionDocs: the index of the category in its loop
    faults,               \* the failures of the network and file system so far
    error,                \* the error main().catch received
    completed,            \* the ids of the versions generated and given their manual pages
    written,              \* the paths the run has created or written
    manualAtStart,        \* the files of _manual before the run
    cleanCaught,          \* whether the catch clause of the clean ran
    helpOutputs,          \* main: the parsed help of each command, by command name
    globalOptions,        \* main: the global options parsed from the main help
    manualSections,       \* the hand-written sections given to generateCommandsMdx
    mdxContent,           \* the content of commands.mdx
    extracted,            \* extractManualSections(mdxContent)
    cliPc,                \* the CLI reference main: the statement it is at
    skipTests,            \* config.skipTests
    report,               \* the GenerationReport (without its timestamp)
    testSprite,           \* the name of the test sprite, empty while undefined
    cmdIndex,             \* the index of the command in the loop main is in
    thrown,               \* the error on its way out of the try block, if any
    calls,                \* the functions of cli-runner.ts called so far, in order
    consoleError,         \* the last line given to console.error
    reportFile,           \* cli-test-report.json as this run wrote it
    printedReport,        \* the error lines of the report printed at step 10
    exitCode,             \* the exit code of the process, -1 while it runs
    givenUrl,             \* rewriteApiUrl: the URL given
    targetVersionId,      \* rewriteApiUrl, transformSidebarForVersion: the target
    rewritten,            \* rewriteApiUrl(url, targetVersionId)
    sidebarEntries,       \* transformSidebarForVersion: the entries given
    transformed,          \* transformSidebarForVersion(sidebarEntries, targetVersionId)
    helpLines,            \* parseHelpOutput: output.split('\n')
    lineNo,               \* parseHelpOutput: the loop index i
    parseResult,          \* parseHelpOutput: result
    currentSection,       \* parseHelpOutput: the section the loop is in
    currentOption,        \* parseHelpOutput: the pending option, <<>> while null
    timer,                \* runCommand: the timeout timer
    procEvents,           \* runCommand: the events the child process has emitted
    signals,              \* runCommand: the signals sent to the child process
    stdout,               \* runCommand: the output collected so far
    stderr,               \* runCommand: the error output collected so far
    promise,              \* runCommand: <<>> while pending, else the CommandResult
    resolveCalls,         \* runCommand: the results resolve() was called with
    groupIndex,           \* generateVersionDocs: the endpoints the grouping loop has taken
    groupError            \* generateVersionDocs: the error the grouping loop threw, if any

formatVars == <<goType, display, redisplay>>
propertyVars == <<fields, depth, properties>>
renderVars == <<responseCode, examplesArray, httpExample>>
versionVars == <<schemaEndpoints, versionId, categories, endpointsByCategory,
                 pages, sidebarItems>>
fragmentVars == <<websocketMessages, fragment>>
runVars == <<pc, dirs, files, dirEntries, versionIndex, requests, categoryIndex, faults,
            error, completed, written, manualAtStart, cleanCaught>>
commandsVars == <<helpOutputs, globalOptions, manualSections, mdxContent, extracted>>
driverVars == <<cliPc, skipTests, report, testSprite, cmdIndex, thrown, calls,
               consoleError, reportFile, printedReport, exitCode>>
cliVars == <<commandsVars, driverVars>>
rewriteVars == <<givenUrl, targetVersionId, rewritten, sidebarEntries, transformed>>
parserVars == <<helpLines, lineNo, parseResult, currentSection, currentOption>>
commandVars == <<timer, procEvents, signals, stdout, stderr, promise, resolveCalls>>
groupingVars == <<groupIndex, groupError>>
restVars == <<parserVars, commandVars, groupingVars>>
moreVars == <<rewriteVars, restVars>>
laterVars == <<fragmentVars, runVars, cliVars, moreVars>>
vars == <<step, formatVars, types, propertyVars, endpoint, sdk, renderVars,
          versionVars, laterVars>>

(***************************************************************************)
(* Strings                                                                 *)
(***************************************************************************)

EmptyString == <<>>

UpperCaseLetters ==
    <<"A", "B", "C", "D", "E", "F", "G", "H", "I", "J", "K", "L", "M",
      "N", "O", "P", "Q", "R", "S", "T", "U", "V", "W", "X", "Y", "Z">>

LowerCaseLetters ==
    <<"a", "b", "c", "d", "e", "f", "g", "h", "i", "j", "k", "l", "m",
      "n", "o", "p", "q", "r", "s", "t", "u", "v", "w", "x", "y", "z">>

Digits == <<"0", "1", "2", "3", "4", "5", "6", "7", "8", "9">>

\* the grave accent (U+0060), which a TLA+ string cannot contain
GraveAccent == "grave"

\* the printable ASCII characters in code-unit order
AsciiOrder ==
    <<" ", "!", "\"", "#", "$", "%", "&", "'", "(", ")", "*", "+", ",", "-", ".", "/",
      "0", "1", "2", "3", "4", "5", "6", "7", "8", "9", ":", ";", "<", "=", ">", "?",
      "@", "A", "B", "C", "D", "E", "F", "G", "H", "I", "J", "K", "L", "M", "N", "O",
      "P", "Q", "R", "S", "T", "U", "V", "W", "X", "Y", "Z", "[", "\\", "]", "^", "_",
      GraveAccent, "a", "b", "c", "d", "e", "f", "g", "h", "i", "j", "k", "l", "m", "n", "o",
      "p", "q", "r", "s", "t", "u", "v", "w", "x", "y", "z", "{", "|", "}", "~">>

Range(s) == {s[i] : i \in DOMAIN s}

\* the position of a character in code-unit order
charCode(c) == CHOOSE i \in DOMAIN AsciiOrder : AsciiOrder[i] = c

\* a < b as the default Array.prototype.sort compares strings
RECURSIVE stringLess(_, _)
stringLess(a, b) ==
    IF b = <<>> THEN FALSE
    ELSE IF a = <<>> THEN TRUE
    ELSE IF Head(a) = Head(b) THEN stringLess(Tail(a), Tail(b))
    ELSE charCode(Head(a)) < charCode(Head(b))

\* Array.prototype.sort() of a set of distinct strings
RECURSIVE sortStrings(_)
sortStrings(S) ==
    IF S = {} THEN <<>>
    ELSE LET least == CHOOSE a \in S : \A b \in S \ {a} : stringLess(a, b)
         IN  <<least>> \o sortStrings(S \ {least})

\* String.prototype.toLowerCase / toUpperCase, one character
toLowerChar(c) ==
    IF c \in Range(UpperCaseLetters)
    THEN LowerCaseLetters[CHOOSE i \in DOMAIN UpperCaseLetters : UpperCaseLetters[i] = c]
    ELSE c

toUpperChar(c) ==
    IF c \in Range(LowerCaseLetters)
    THEN UpperCaseLetters[CHOOSE i \in DOMAIN LowerCaseLetters : LowerCaseLetters[i] = c]
    ELSE c

toLowerCase(s) == [i \in DOMAIN s |-> toLowerChar(s[i])]

toUpperCase(s) == [i \in DOMAIN s |-> toUpperChar(s[i])]

\* s.startsWith(p)
startsWith(s, p) == Len(s) >= Len(p) /\ SubSeq(s, 1, Len(p)) = p

\* s.endsWith(p)
endsWith(s, p) == Len(s) >= Len(p) /\ SubSeq(s, Len(s) - Len(p) + 1, Len(s)) = p

\* s.slice(n), n >= 0
slice(s, n) == SubSeq(s, n + 1, Len(s))

\* s.indexOf(p), 1-based; 0 when p does not occur
indexOf(s, p) ==
    IF \E i \in 1..(Len(s) + 1) : startsWith(slice(s, i - 1), p)
    THEN CHOOSE i \in 1..(Len(s) + 1) :
            /\ startsWith(slice(s, i - 1), p)
            /\ \A j \in 1..(i - 1) : ~startsWith(slice(s, j - 1), p)
    ELSE 0

\* s.includes(p)
includes(s, p) == indexOf(s, p) # 0

\* s.replace(p, r) with a string pattern: the first occurrence only
replaceFirst(s, p, r) ==
    LET i == indexOf(s, p)
    IN  IF i = 0 THEN s
        ELSE SubSeq(s, 1, i - 1) \o r \o slice(s, i - 1 + Len(p))

\* (s.match(/p/g) || []).length for a literal, non-empty p
RECURSIVE countOccurrences(_, _)
countOccurrences(s, p) ==
    LET i == indexOf(s, p)
    IN  IF i = 0 THEN 0 ELSE 1 + countOccurrences(slice(s, i - 1 + Len(p)), p)

\* the concatenation of the strings of a sequence (by halves)
RECURSIVE concat(_)
concat(parts) ==
    IF parts = <<>> THEN <<>>
    ELSE IF Len(parts) = 1 THEN parts[1]
    ELSE LET half == Len(parts) \div 2
         IN  concat(SubSeq(parts, 1, half)) \o concat(SubSeq(parts, half + 1, Len(parts)))

\* s.replace(/c/g, r) for one character c
replaceAllChar(s, c, r) ==
    concat([i \in DOMAIN s |-> IF s[i] = c THEN r ELSE <<s[i]>>])

WhiteSpace == {" ", "\t", "\n"}

RECURSIVE trimStart(_)
trimStart(s) ==
    IF s # <<>> /\ Head(s) \in WhiteSpace THEN trimStart(Tail(s)) ELSE s

RECURSIVE trimEnd(_)
trimEnd(s) ==
    IF s # <<>> /\ s[Len(s)] \in WhiteSpace
    THEN trimEnd(SubSeq(s, 1, Len(s) - 1))
    ELSE s

\* String.prototype.trim
trim(s) == trimEnd(trimStart(s))

\* the regular expression class \w
IsWordChar(c) ==
    c \in Range(UpperCaseLetters) \cup Range(LowerCaseLetters) \cup Range(Digits) \cup {"_"}

\* the regular expression class [a-z0-9]
IsLowerAlnum(c) == c \in Range(LowerCaseLetters) \cup Range(Digits)

\* the length of the longest run of word characters s starts with
RECURSIVE wordRun(_)
wordRun(s) ==
    IF s # <<>> /\ IsWordChar(Head(s)) THEN 1 + wordRun(Tail(s)) ELSE 0

\* parts.join(sep)
RECURSIVE join(_, _)
join(parts, sep) ==
    IF parts = <<>> THEN <<>>
    ELSE IF Len(parts) = 1 THEN parts[1]
    ELSE parts[1] \o sep \o join(Tail(parts), sep)

\* String(n) for a natural number n
RECURSIVE natToString(_)
natToString(n) ==
    IF n < 10 THEN <<Digits[n + 1]>>
    ELSE natToString(n \div 10) \o <<Digits[(n % 10) + 1]>>

\* a JavaScript string used as a condition
TruthyString(s) == s # EmptyString

\* all sequences over S of length at most n
RECURSIVE SeqsUpTo(_, _)
SeqsUpTo(S, n) ==
    IF n = 0 THEN {<<>>}
    ELSE LET shorter == SeqsUpTo(S, n - 1)
         IN  shorter \cup {Append(q, x) : q \in {r \in shorter : Len(r) = n - 1}, x \in S}

(***************************************************************************)
(* String literals                                                         *)
(***************************************************************************)

S_string == <<"s", "t", "r", "i", "n", "g">>
S_bool == <<"b", "o", "o", "l">>
S_int == <<"i", "n", "t">>
S_int64 == <<"i", "n", "t", "6", "4">>
S_uint16 == <<"u", "i", "n", "t", "1", "6">>
S_float64 == <<"f", "l", "o", "a", "t", "6", "4">>
S_timeTime == <<"t", "i", "m", "e", ".", "T", "i", "m", "e">>
S_timeDuration == <<"t", "i", "m", "e", ".", "D", "u", "r", "a", "t", "i", "o", "n">>
S_Duration == <<"D", "u", "r", "a", "t", "i", "o", "n">>
S_error == <<"e", "r", "r", "o", "r">>
S_any == <<"a", "n", "y">>
S_interface == <<"i", "n", "t", "e", "r", "f", "a", "c", "e", "{", "}">>
S_boolean == <<"b", "o", "o", "l", "e", "a", "n">>
S_number == <<"n", "u", "m", "b", "e", "r">>
S_iso8601 ==
    <<"s", "t", "r", "i", "n", "g", " ", "(", "I", "S", "O", " ", "8", "6", "0",
      "1", ")">>
S_duration ==
    <<"s", "t", "r", "i", "n", "g", " ", "(", "d", "u", "r", "a", "t", "i", "o",
      "n", ")">>
S_numberOpt == <<"n", "u", "m", "b", "e", "r", "?">>
S_durationOpt == <<"d", "u", "r", "a", "t", "i", "o", "n", "?">>
S_mapPrefix == <<"m", "a", "p", "[">>
S_mapStringInterface ==
    <<"m", "a", "p", "[", "s", "t", "r", "i", "n", "g", "]", "i", "n", "t", "e",
      "r", "f", "a", "c", "e", "{", "}">>
S_mapStringAny ==
    <<"m", "a", "p", "[", "s", "t", "r", "i", "n", "g", "]", "a", "n", "y">>
S_mapStringString ==
    <<"m", "a", "p", "[", "s", "t", "r", "i", "n", "g", "]", "s", "t", "r", "i",
      "n", "g">>
S_mapStringInt ==
    <<"m", "a", "p", "[", "s", "t", "r", "i", "n", "g", "]", "i", "n", "t">>
S_object == <<"o", "b", "j", "e", "c", "t">>
S_record ==
    <<"R", "e", "c", "o", "r", "d", "<", "s", "t", "r", "i", "n", "g", ",", " ",
      "s", "t", "r", "i", "n", "g", ">">>
S_star == <<"*">>
S_brackets == <<"[", "]">>
S_question == <<"?">>
S_lt == <<"<">>
S_gt == <<">">>
S_hyphen == <<"-">>
S_hash == <<"#">>
S_slash == <<"/">>
S_dollar == <<"$">>
S_Sprite == <<"S", "p", "r", "i", "t", "e">>
S_typesRefPrefix == <<"#", "/", "t", "y", "p", "e", "s", "/">>
S_GET == <<"G", "E", "T">>
S_POST == <<"P", "O", "S", "T">>
S_PUT == <<"P", "U", "T">>
S_PATCH == <<"P", "A", "T", "C", "H">>
S_DELETE == <<"D", "E", "L", "E", "T", "E">>
S_WSS == <<"W", "S", "S">>
S_nameParam == <<"{", "n", "a", "m", "e", "}">>
S_spriteNameVar == <<"$", "S", "P", "R", "I", "T", "E", "_", "N", "A", "M", "E">>
S_serviceNameVar == <<"$", "S", "E", "R", "V", "I", "C", "E", "_", "N", "A", "M", "E">>
S_curlBase ==
    <<"h", "t", "t", "p", "s", ":", "/", "/", "a", "p", "i", ".", "s", "p", "r",
      "i", "t", "e", "s", ".", "d", "e", "v">>
S_wssBase ==
    <<"w", "s", "s", ":", "/", "/", "a", "p", "i", ".", "s", "p", "r", "i", "t",
      "e", "s", ".", "d", "e", "v">>
S_python == <<"p", "y", "t", "h", "o", "n">>
S_myCheckpoint == <<"m", "y", " ", "c", "h", "e", "c", "k", "p", "o", "i", "n", "t">>
S_myPrefix == <<"m", "y", "-">>
S_cmd == <<"c", "m", "d">>
S_comment == <<"c", "o", "m", "m", "e", "n", "t">>
S_args == <<"a", "r", "g", "s">>
S_port == <<"p", "o", "r", "t">>
S_seqString == <<"[", "]", "s", "t", "r", "i", "n", "g">>
S_optInt == <<"*", "i", "n", "t">>
S_dashM == <<"-", "m">>
S_httpServer == <<"h", "t", "t", "p", ".", "s", "e", "r", "v", "e", "r">>
S_8000 == <<"8", "0", "0", "0">>
S_other == <<"o", "t", "h", "e", "r">>
S_apiSlash == <<"a", "p", "i", "/">>
S_slashApiSlash == <<"/", "a", "p", "i", "/">>
S_Overview == <<"O", "v", "e", "r", "v", "i", "e", "w">>
S_TypeDefinitions ==
    <<"T", "y", "p", "e", " ", "D", "e", "f", "i", "n", "i", "t", "i", "o", "n",
      "s">>
S_typesPage == <<"/", "t", "y", "p", "e", "s">>
S_sprites == <<"s", "p", "r", "i", "t", "e", "s">>
S_Sprites == <<"S", "p", "r", "i", "t", "e", "s">>
S_exec == <<"e", "x", "e", "c">>
S_Exec == <<"E", "x", "e", "c">>
S_checkpoints == <<"c", "h", "e", "c", "k", "p", "o", "i", "n", "t", "s">>
S_Checkpoints == <<"C", "h", "e", "c", "k", "p", "o", "i", "n", "t", "s">>
S_services == <<"s", "e", "r", "v", "i", "c", "e", "s">>
S_Services == <<"S", "e", "r", "v", "i", "c", "e", "s">>
S_proxy == <<"p", "r", "o", "x", "y">>
S_HTTPProxy == <<"H", "T", "T", "P", " ", "P", "r", "o", "x", "y">>
S_policy == <<"p", "o", "l", "i", "c", "y">>
S_Policy == <<"P", "o", "l", "i", "c", "y">>
S_organization == <<"o", "r", "g", "a", "n", "i", "z", "a", "t", "i", "o", "n">>
S_Organization == <<"O", "r", "g", "a", "n", "i", "z", "a", "t", "i", "o", "n">>
S_tokens == <<"t", "o", "k", "e", "n", "s">>
S_Tokens == <<"T", "o", "k", "e", "n", "s">>
S_files == <<"f", "i", "l", "e", "s">>
S_Files == <<"F", "i", "l", "e", "s">>
S_filesystem == <<"f", "i", "l", "e", "s", "y", "s", "t", "e", "m">>
S_Filesystem == <<"F", "i", "l", "e", "s", "y", "s", "t", "e", "m">>
S_attach == <<"a", "t", "t", "a", "c", "h">>
S_Attach == <<"A", "t", "t", "a", "c", "h">>
S_CreateSprite == <<"C", "r", "e", "a", "t", "e", " ", "S", "p", "r", "i", "t", "e">>
S_ListSprites == <<"L", "i", "s", "t", " ", "S", "p", "r", "i", "t", "e", "s">>
S_GetSprite == <<"G", "e", "t", " ", "S", "p", "r", "i", "t", "e">>
S_UpdateSprite == <<"U", "p", "d", "a", "t", "e", " ", "S", "p", "r", "i", "t", "e">>
S_DeleteSprite == <<"D", "e", "l", "e", "t", "e", " ", "S", "p", "r", "i", "t", "e">>

S_true == <<"t", "r", "u", "e">>
S_false == <<"f", "a", "l", "s", "e">>
S_null == <<"n", "u", "l", "l">>
S_quote == <<"\"">>
S_backslash == <<"\\">>
S_comma == <<",">>
S_colon == <<":">>

S_A == <<"A">>
S_B == <<"B">>
S_C == <<"C">>
S_f == <<"f">>
S_F == <<"F">>
S_id == <<"i", "d">>
S_e == <<"e">>
S_a == <<"a">>
S_b == <<"b">>
S_x == <<"x">>


(***************************************************************************)
(* formatType                                                              *)
(***************************************************************************)

\* a mapping that shows a Go name instead of its display notation
typeMapGoName ==
    << <<S_string, S_string>>, <<S_bool, S_boolean>>, <<S_int, S_number>>,
       <<S_int64, S_number>>, <<S_uint16, S_number>>, <<S_float64, S_number>>,
       <<S_timeTime, S_iso8601>>, <<S_timeDuration, S_duration>>,
       <<S_Duration, S_timeDuration>>, <<S_error, S_string>>, <<S_any, S_any>>,
       <<S_interface, S_any>> >>

\* the table of basic type mappings, as <<key, value>> pairs
typeMap ==
    << <<S_string, S_string>>, <<S_bool, S_boolean>>, <<S_int, S_number>>,
       <<S_int64, S_number>>, <<S_uint16, S_number>>, <<S_float64, S_number>>,
       <<S_timeTime, S_iso8601>>, <<S_timeDuration, S_duration>>,
       <<S_Duration, S_duration>>, <<S_error, S_string>>, <<S_any, S_any>>,
       <<S_interface, S_any>> >>

\* typeMap[goType] || goType
typeMapLookup(ty) ==
    IF \E i \in DOMAIN typeMap : typeMap[i][1] = ty
    THEN typeMap[CHOOSE i \in DOMAIN typeMap : typeMap[i][1] = ty][2]
    ELSE ty

RECURSIVE formatType(_)

\* a pointer branch that forgets the optional suffix
formatPointerNoSuffix(inner) ==
    IF inner = S_int \/ inner = S_int64 THEN S_numberOpt
    ELSE IF inner = S_Duration THEN S_durationOpt
    ELSE formatType(inner)

\* the pointer branch: goType.startsWith('*'), inner = goType.slice(1)
formatPointer(inner) ==
    IF inner = S_int \/ inner = S_int64 THEN S_numberOpt
    ELSE IF inner = S_Duration THEN S_durationOpt
    ELSE formatType(inner) \o S_question

\* the map branch: goType.startsWith('map[')
formatMap(ty) ==
    IF ty = S_mapStringInterface \/ ty = S_mapStringAny THEN S_object
    ELSE IF ty = S_mapStringString THEN S_record
    ELSE S_object

formatType(ty) ==
    IF startsWith(ty, S_star) THEN formatPointer(slice(ty, 1))
    ELSE IF startsWith(ty, S_brackets)
         THEN formatType(slice(ty, 2)) \o S_brackets
    ELSE IF startsWith(ty, S_mapPrefix) THEN formatMap(ty)
    ELSE typeMapLookup(ty)

(***************************************************************************)
(* JavaScript values (schema examples, generated JSON)                     *)
(***************************************************************************)

\* a value: its type tag t, the text s of a string, the number n (1 for
\* true, 0 for false), and in props the <<key, value>> pairs of an object or
\* array in key order
JsValue(tag, str, num, members) == [t |-> tag, s |-> str, n |-> num, props |-> members]

Undefined == JsValue("undefined", EmptyString, 0, <<>>)
Null == JsValue("null", EmptyString, 0, <<>>)
JsString(str) == JsValue("string", str, 0, <<>>)
JsNumber(num) == JsValue("number", EmptyString, num, <<>>)
JsObject(members) == JsValue("object", EmptyString, 0, members)
JsArray(items) ==
    JsValue("array", EmptyString, 0,
            [i \in DOMAIN items |-> <<natToString(i - 1), items[i]>>])

\* a value used as a condition
Truthy(v) ==
    CASE v.t \in {"undefined", "null"} -> FALSE
      [] v.t = "string" -> v.s # EmptyString
      [] v.t \in {"number", "boolean"} -> v.n # 0
      [] OTHER -> TRUE

\* typeof v
TypeOf(v) == IF v.t \in {"null", "array"} THEN "object" ELSE v.t

\* Object.keys(v).length of an object or array
ObjectKeysLength(v) == Len(v.props)

\* obj[key] = value: a key already present keeps its position
SetProperty(members, key, value) ==
    IF \E i \in DOMAIN members : members[i][1] = key
    THEN [i \in DOMAIN members |->
            IF members[i][1] = key THEN <<key, value>> ELSE members[i]]
    ELSE Append(members, <<key, value>>)

\* the characters of a JSON string literal: '"' and '\' are escaped
escapeJsonChars(s) ==
    concat([i \in DOMAIN s |->
               IF s[i] \in {"\"", "\\"} THEN <<"\\", s[i]>> ELSE <<s[i]>>])

quote(s) == S_quote \o escapeJsonChars(s) \o S_quote

spaces(n) == [i \in 1..n |-> " "]

\* the line break and indentation JSON.stringify puts before an item at the
\* given indentation; nothing when there is no gap
lineBreak(gap, indent) == IF gap = 0 THEN <<>> ELSE <<"\n">> \o spaces(indent)

\* JSON.stringify(v, null, gap) of a value nested at the given indentation
RECURSIVE stringifyAt(_, _, _)
stringifyAt(v, gap, indent) ==
    LET inner == indent + gap
        item(i) == stringifyAt(v.props[i][2], gap, inner)
        member(i) ==
            quote(v.props[i][1]) \o S_colon
            \o (IF gap = 0 THEN <<>> ELSE <<" ">>) \o item(i)
        body(parts) ==
            lineBreak(gap, inner) \o join(parts, S_comma \o lineBreak(gap, inner))
            \o lineBreak(gap, indent)
    IN  CASE v.t = "string" -> quote(v.s)
          [] v.t = "number" -> natToString(v.n)
          [] v.t = "boolean" -> IF v.n # 0 THEN S_true ELSE S_false
          [] v.t = "array" ->
                IF v.props = <<>> THEN <<"[", "]">>
                ELSE <<"[">> \o body([i \in DOMAIN v.props |-> item(i)]) \o <<"]">>
          [] v.t = "object" ->
                IF v.props = <<>> THEN <<"{", "}">>
                ELSE <<"{">> \o body([i \in DOMAIN v.props |-> member(i)]) \o <<"}">>
          [] OTHER -> S_null

\* JSON.stringify(v, null, gap); JSON.stringify(v) is stringify(v, 0)
stringify(v, gap) == stringifyAt(v, gap, 0)

(***************************************************************************)
(* The schema: types, endpoints, SDK examples                              *)
(***************************************************************************)

\* a TypeField; description and const are carried through unchanged by every
\* function modelled here and are left out
TypeField(name, json, ty, optional) ==
    [name |-> name, json |-> json, type |-> ty, optional |-> optional,
     const |-> EmptyString]

\* a field with a const value
ConstField(name, json, ty, const) ==
    [TypeField(name, json, ty, FALSE) EXCEPT !.const = const]

\* an APIType; hasFields is FALSE when the schema gives the type no field list
APIType(hasFields, fieldList, example) ==
    [hasFields |-> hasFields, fields |-> fieldList, example |-> example]

NoTypes == [name \in {} |-> APIType(FALSE, <<>>, Undefined)]

\* types[typeName]?.fields is truthy
HasFieldList(tys, typeName) == typeName \in DOMAIN tys /\ tys[typeName].hasFields

\* types[typeName]?.example
ExampleOf(tys, typeName) ==
    IF typeName \in DOMAIN tys THEN tys[typeName].example ELSE Undefined

\* a request or response descriptor (TypeReference | InlineType): present is
\* FALSE when the endpoint has none, hasRef is '$ref' in it, hasFields is
\* 'fields' in it
Descriptor(present, hasRef, ref, hasFields, fieldList) ==
    [present |-> present, hasRef |-> hasRef, ref |-> ref,
     hasFields |-> hasFields, fields |-> fieldList]

NoDescriptor == Descriptor(FALSE, FALSE, EmptyString, FALSE, <<>>)
RefDescriptor(ref) == Descriptor(TRUE, TRUE, ref, FALSE, <<>>)
InlineDescriptor(fieldList) == Descriptor(TRUE, FALSE, EmptyString, TRUE, fieldList)

\* an APIResponse; hasBody is FALSE when it has no body reference
APIResponse(status, hasBody, ref) == [status |-> status, hasBody |-> hasBody, ref |-> ref]

\* the messages of a socket endpoint: references to websocket_messages;
\* present is FALSE when the endpoint has no messages object
WebSocketMessages(present, client_to_server, server_to_client) ==
    [present |-> present, client_to_server |-> client_to_server,
     server_to_client |-> server_to_client]

NoMessages == WebSocketMessages(FALSE, <<>>, <<>>)

\* an APIEndpoint; hasResponses is FALSE when the schema gives the endpoint no
\* responses list
APIEndpoint(name, path, method, category, request, response, responses, example) ==
    [name |-> name, path |-> path, method |-> method, category |-> category,
     request |-> request, response |-> response,
     hasResponses |-> TRUE, responses |-> responses,
     stream_response |-> FALSE, stream_message_types |-> <<>>,
     messages |-> NoMessages, example |-> example]

NoEndpoint ==
    APIEndpoint(EmptyString, EmptyString, S_GET, EmptyString, NoDescriptor,
                NoDescriptor, <<>>, Undefined)

\* ref.replace('#/types/', '')
typeNameOfRef(ref) == replaceFirst(ref, S_typesRefPrefix, EmptyString)

\* an SDKExample as found for an endpoint; present is FALSE for undefined
SDKExample(present, sdk_code, cli_command) ==
    [present |-> present, sdk_code |-> sdk_code, cli_command |-> cli_command]

NoSDKExample == SDKExample(FALSE, EmptyString, EmptyString)

\* the SDKExamples of one language: examples by endpoint key
SDKExamples(endpointExamples, managementExamples) ==
    [endpoints |-> endpointExamples, management |-> managementExamples]

NoSDKExamples ==
    SDKExamples([key \in {} |-> NoSDKExample], [key \in {} |-> NoSDKExample])

NoExamples ==
    [go |-> NoSDKExamples, js |-> NoSDKExamples, python |-> NoSDKExamples,
     elixir |-> NoSDKExamples]

getEndpointKey(method, path) == method \o <<" ">> \o path

\* examples.endpoints[key] || examples.management[key]
findExample(examples, method, path) ==
    LET key == getEndpointKey(method, path)
    IN  IF key \in DOMAIN examples.endpoints THEN examples.endpoints[key]
        ELSE IF key \in DOMAIN examples.management THEN examples.management[key]
        ELSE NoSDKExample


(***************************************************************************)
(* Property trees (convertTypeFieldsToProperties)                          *)
(***************************************************************************)

\* a cap that lets one more level through
DepthCapOneMore == 3 + 1

\* the recursion cap
DepthCap == 3

\* f.type.match(/^(\w+)(\[\])?$/): whether it matches, and group 1
typeMatch(ty) ==
    LET base == IF endsWith(ty, S_brackets) THEN SubSeq(ty, 1, Len(ty) - 2) ELSE ty
    IN  [matched |-> base # EmptyString /\ \A i \in DOMAIN base : IsWordChar(base[i]),
         typeName |-> base]

\* a PropertyDef; hasChildren is FALSE when children is undefined
PropertyDef(name, ty, required, hasChildren, children) ==
    [name |-> name, type |-> ty, required |-> required,
     hasChildren |-> hasChildren, children |-> children]

RECURSIVE convertTypeFieldsToProperties(_, _, _)
convertTypeFieldsToProperties(fs, tys, d) ==
    IF d > DepthCap THEN <<>>
    ELSE [i \in DOMAIN fs |->
            LET f == fs[i]
                m == typeMatch(f.type)
                resolves == m.matched /\ HasFieldList(tys, m.typeName)
            IN  PropertyDef(
                    IF TruthyString(f.json) THEN f.json ELSE f.name,
                    formatType(f.type),
                    ~f.optional,
                    resolves,
                    IF resolves
                    THEN convertTypeFieldsToProperties(tys[m.typeName].fields, tys, d + 1)
                    ELSE <<>>)]

(***************************************************************************)
(* Response examples (generateResponseCode)                                *)
(***************************************************************************)

\* example[field.json] = `<${formatType(field.type)}>` for each field in order
RECURSIVE placeholderMembers(_, _)
placeholderMembers(fs, members) ==
    IF fs = <<>> THEN members
    ELSE placeholderMembers(
            Tail(fs),
            SetProperty(members, Head(fs).json,
                        JsString(S_lt \o formatType(Head(fs).type) \o S_gt)))

\* endpoint.responses.find((r) => r.status === 200 && r.body): its index, or 0
successResponse(ep) ==
    LET found == {i \in DOMAIN ep.responses :
                    ep.responses[i].status = 200 /\ ep.responses[i].hasBody}
    IN  IF found = {} THEN 0
        ELSE CHOOSE i \in found : \A j \in found : i <= j

\* priority 2: the example of the type of the 200 response's body
successExample(ep, tys) ==
    LET i == successResponse(ep)
    IN  IF i # 0 /\ TruthyString(ep.responses[i].ref)
        THEN ExampleOf(tys, typeNameOfRef(ep.responses[i].ref))
        ELSE Undefined

\* priority 3: the example of the type endpoint.response refers to
responseRefExample(ep, tys) ==
    IF ep.response.present /\ ep.response.hasRef
    THEN ExampleOf(tys, typeNameOfRef(ep.response.ref))
    ELSE Undefined

\* the fallbacks after the examples: inline fields, then the empty string
responseFallback(ep) ==
    IF ep.response.present /\ ep.response.hasFields
    THEN stringify(JsObject(placeholderMembers(ep.response.fields, <<>>)), 2)
    ELSE EmptyString

\* the priorities with the types' examples looked at before the endpoint's
generateResponseCodeTypeFirst(ep, tys) ==
    IF Truthy(successExample(ep, tys)) THEN stringify(successExample(ep, tys), 2)
    ELSE IF Truthy(ep.example) THEN stringify(ep.example, 2)
    ELSE IF Truthy(responseRefExample(ep, tys))
         THEN stringify(responseRefExample(ep, tys), 2)
    ELSE responseFallback(ep)

generateResponseCode(ep, tys) ==
    IF Truthy(ep.example) THEN stringify(ep.example, 2)
    ELSE IF Truthy(successExample(ep, tys)) THEN stringify(successExample(ep, tys), 2)
    ELSE IF Truthy(responseRefExample(ep, tys))
         THEN stringify(responseRefExample(ep, tys), 2)
    ELSE responseFallback(ep)

(***************************************************************************)
(* Wire-level examples (generateHttpExample)                               *)
(***************************************************************************)

S_websocatHead == <<"w", "e", "b", "s", "o", "c", "a", "t", " ", "\\">>
S_authSprites ==
    <<" ", " ", "-", "H", " ", "\"", "A", "u", "t", "h", "o", "r", "i", "z", "a",
      "t", "i", "o", "n", ":", " ", "B", "e", "a", "r", "e", "r", " ", "$", "S",
      "P", "R", "I", "T", "E", "S", "_", "T", "O", "K", "E", "N", "\"">>
S_curl == <<"c", "u", "r", "l">>
S_dashX == <<" ", "-", "X", " ">>
S_contIndent == <<" ", "\\">>
S_authSprite ==
    <<" ", " ", "-", "H", " ", "\"", "A", "u", "t", "h", "o", "r", "i", "z", "a",
      "t", "i", "o", "n", ":", " ", "B", "e", "a", "r", "e", "r", " ", "$", "S",
      "P", "R", "I", "T", "E", "_", "T", "O", "K", "E", "N", "\"">>
S_contentType ==
    <<" ", " ", "-", "H", " ", "\"", "C", "o", "n", "t", "e", "n", "t", "-", "T",
      "y", "p", "e", ":", " ", "a", "p", "p", "l", "i", "c", "a", "t", "i", "o",
      "n", "/", "j", "s", "o", "n", "\"">>
S_dashD == <<" ", " ", "-", "d", " ", "'">>
S_apostrophe == <<"'">>
S_twoSpaces == <<" ", " ">>

\* the line continuation ' \' and line break between the parts of a command
lineContinuation == S_contIndent \o <<"\n">>

\* path.replace(/\{(\w+)\}/g, (_, p) => `$${p.toUpperCase()}`)
RECURSIVE replacePathParams(_)
replacePathParams(path) ==
    IF path = <<>> THEN <<>>
    ELSE LET n == wordRun(Tail(path))
         IN  IF Head(path) = "{" /\ n > 0 /\ Len(path) > n + 1 /\ path[n + 2] = "}"
             THEN S_dollar \o toUpperCase(SubSeq(path, 2, n + 1))
                  \o replacePathParams(slice(path, n + 2))
             ELSE <<Head(path)>> \o replacePathParams(Tail(path))

\* the {name} parameters: the first is the sprite, the second the service
replaceNameParams(path) ==
    LET count == countOccurrences(path, S_nameParam)
    IN  IF count = 1 THEN replaceFirst(path, S_nameParam, S_spriteNameVar)
        ELSE IF count >= 2
             THEN replaceFirst(replaceFirst(path, S_nameParam, S_spriteNameVar),
                               S_nameParam, S_serviceNameVar)
        ELSE path

\* a rule table whose string placeholder is derived from the wire name
fieldExampleWireName(field) ==
    LET nameLower == toLowerCase(field.name)
    IN  IF field.type = S_string
        THEN [some |-> TRUE,
              value |-> JsString(IF nameLower = S_cmd THEN S_python
                                 ELSE IF nameLower = S_comment THEN S_myCheckpoint
                                 ELSE S_myPrefix \o field.json)]
        ELSE IF field.type = S_seqString
        THEN [some |-> TRUE,
              value |-> IF nameLower = S_args
                        THEN JsArray(<<JsString(S_dashM), JsString(S_httpServer),
                                       JsString(S_8000)>>)
                        ELSE JsArray(<<>>)]
        ELSE IF field.type = S_optInt \/ field.type = S_int
        THEN [some |-> TRUE,
              value |-> JsNumber(IF includes(nameLower, S_port) THEN 8000 ELSE 0)]
        ELSE [some |-> FALSE, value |-> Undefined]

\* the value a field contributes to the synthesized body; none for a field
\* of another type
fieldExample(field) ==
    LET nameLower == toLowerCase(field.name)
    IN  IF field.type = S_string
        THEN [some |-> TRUE,
              value |-> JsString(IF nameLower = S_cmd THEN S_python
                                 ELSE IF nameLower = S_comment THEN S_myCheckpoint
                                 ELSE S_myPrefix \o nameLower)]
        ELSE IF field.type = S_seqString
        THEN [some |-> TRUE,
              value |-> IF nameLower = S_args
                        THEN JsArray(<<JsString(S_dashM), JsString(S_httpServer),
                                       JsString(S_8000)>>)
                        ELSE JsArray(<<>>)]
        ELSE IF field.type = S_optInt \/ field.type = S_int
        THEN [some |-> TRUE,
              value |-> JsNumber(IF includes(nameLower, S_port) THEN 8000 ELSE 0)]
        ELSE [some |-> FALSE, value |-> Undefined]

\* the loop over type.fields: bodyExample[jsonKey] = ... for each field
RECURSIVE bodyFromFields(_, _)
bodyFromFields(fs, members) ==
    IF fs = <<>> THEN members
    ELSE LET field == Head(fs)
             jsonKey == IF TruthyString(field.json) THEN field.json
                        ELSE toLowerCase(field.name)
             ex == fieldExample(field)
         IN  bodyFromFields(Tail(fs),
                            IF ex.some THEN SetProperty(members, jsonKey, ex.value)
                            ELSE members)

\* a body that is synthesized from the fields even when the type carries an
\* example
bodyExampleFieldsFirst(ep, tys) ==
    IF ~ep.request.hasRef THEN JsObject(<<>>)
    ELSE LET typeName == typeNameOfRef(ep.request.ref)
         IN  IF HasFieldList(tys, typeName)
             THEN JsObject(bodyFromFields(tys[typeName].fields, <<>>))
             ELSE IF Truthy(ExampleOf(tys, typeName))
                     /\ TypeOf(ExampleOf(tys, typeName)) = "object"
             THEN ExampleOf(tys, typeName)
             ELSE JsObject(<<>>)

\* bodyExample of a POST/PUT endpoint with a request
bodyExample(ep, tys) ==
    IF ~ep.request.hasRef THEN JsObject(<<>>)
    ELSE LET typeName == typeNameOfRef(ep.request.ref)
         IN  IF Truthy(ExampleOf(tys, typeName))
                /\ TypeOf(ExampleOf(tys, typeName)) = "object"
             THEN ExampleOf(tys, typeName)
             ELSE IF HasFieldList(tys, typeName)
             THEN JsObject(bodyFromFields(tys[typeName].fields, <<>>))
             ELSE JsObject(<<>>)

generateCurlExample(ep, tys) ==
    LET method == ep.method
        path == replacePathParams(replaceNameParams(ep.path))
        withBody == (method = S_POST \/ method = S_PUT) /\ ep.request.present
        body == bodyExample(ep, tys)
    IN  S_curl
        \o (IF method # S_GET THEN S_dashX \o method ELSE <<>>)
        \o lineContinuation \o S_authSprite
        \o (IF withBody
            THEN lineContinuation \o S_contentType
                 \o (IF ObjectKeysLength(body) > 0
                     THEN lineContinuation \o S_dashD \o stringify(body, 0)
                          \o S_apostrophe
                     ELSE <<>>)
            ELSE <<>>)
        \o lineContinuation \o S_twoSpaces \o S_quote \o S_curlBase \o path \o S_quote

\* the two replacements of the path put back what they match
generateWebsocatExample(ep) ==
    S_websocatHead \o <<"\n">>
    \o S_twoSpaces \o S_quote \o S_wssBase \o ep.path \o S_quote
    \o lineContinuation \o S_authSprites

generateHttpExample(ep, tys) ==
    IF ep.method = S_WSS THEN generateWebsocatExample(ep)
    ELSE generateCurlExample(ep, tys)


(***************************************************************************)
(* Example lists (generateExamplesArray)                                   *)
(***************************************************************************)

S_cli == <<"c", "l", "i">>
S_go == <<"g", "o">>
S_javascript == <<"j", "a", "v", "a", "s", "c", "r", "i", "p", "t">>
S_elixir == <<"e", "l", "i", "x", "i", "r">>

\* str.replace(/\\/g, '\\\\').replace(/`/g, '\\`').replace(/\$/g, '\\$')
escapeForMDX(str) ==
    replaceAllChar(
        replaceAllChar(
            replaceAllChar(str, "\\", <<"\\", "\\">>),
            GraveAccent, <<"\\", GraveAccent>>),
        "$", <<"\\", "$">>)

\* an entry of the list: { language: '...', code: `...` }
ExampleEntry(language, code) == [language |-> language, code |-> code]

\* goEx?.cli_command || jsEx?.cli_command; the empty string when undefined
cliCommandOf(goEx, jsEx) ==
    IF goEx.present /\ TruthyString(goEx.cli_command) THEN goEx.cli_command
    ELSE IF jsEx.present THEN jsEx.cli_command
    ELSE EmptyString

\* the entry of a language: pushed if ex?.sdk_code is truthy
sdkEntry(language, ex) ==
    IF ex.present /\ TruthyString(ex.sdk_code)
    THEN <<ExampleEntry(language, escapeForMDX(trim(ex.sdk_code)))>>
    ELSE <<>>

\* the list `examples` the function builds; the text it returns is the array
\* literal of these entries, joined in this order
generateExamplesArray(ep, tys, goEx, jsEx, pyEx, elixirEx) ==
    LET cliCommand == cliCommandOf(goEx, jsEx)
    IN  (IF TruthyString(trim(cliCommand))
         THEN <<ExampleEntry(S_cli, escapeForMDX(trim(cliCommand)))>>
         ELSE <<>>)
        \o sdkEntry(S_go, goEx)
        \o sdkEntry(S_javascript, jsEx)
        \o sdkEntry(S_python, pyEx)
        \o sdkEntry(S_elixir, elixirEx)
        \o <<ExampleEntry(S_curl, escapeForMDX(generateHttpExample(ep, tys)))>>

(***************************************************************************)
(* Endpoint sections and category pages                                    *)
(***************************************************************************)

\* s.replace(/[^a-z0-9]+/g, '-'): the last character of each run of other
\* characters becomes the hyphen, the ones before it go
replaceNonAlnumRuns(s) ==
    concat([i \in DOMAIN s |->
               IF IsLowerAlnum(s[i]) THEN <<s[i]>>
               ELSE IF i < Len(s) /\ ~IsLowerAlnum(s[i + 1]) THEN <<>>
               ELSE S_hyphen])

\* s.replace(/^-|-$/g, '')
trimHyphens(s) ==
    LET rest == IF startsWith(s, S_hyphen) THEN Tail(s) ELSE s
    IN  IF endsWith(rest, S_hyphen) THEN SubSeq(rest, 1, Len(rest) - 1) ELSE rest

\* the anchor id generateEndpointSection derives from endpoint.name
anchorId(name) == trimHyphens(replaceNonAlnumRuns(toLowerCase(name)))

\* a request body section that shows a reference it cannot resolve as a
\* property of the referenced name
requestPropsOfAnyReference(ep, tys) ==
    IF ~ep.request.present THEN <<>>
    ELSE IF ep.request.hasRef
    THEN LET typeName == typeNameOfRef(ep.request.ref)
         IN  IF HasFieldList(tys, typeName)
             THEN convertTypeFieldsToProperties(tys[typeName].fields, tys, 0)
             ELSE <<PropertyDef(typeName, S_object, TRUE, FALSE, <<>>)>>
    ELSE IF ep.request.hasFields
    THEN convertTypeFieldsToProperties(ep.request.fields, tys, 0)
    ELSE <<>>

\* requestProps: the property tree of the request body
requestProps(ep, tys) ==
    IF ~ep.request.present THEN <<>>
    ELSE IF ep.request.hasRef
    THEN LET typeName == typeNameOfRef(ep.request.ref)
         IN  IF HasFieldList(tys, typeName)
             THEN convertTypeFieldsToProperties(tys[typeName].fields, tys, 0)
             ELSE <<>>
    ELSE IF ep.request.hasFields
    THEN convertTypeFieldsToProperties(ep.request.fields, tys, 0)
    ELSE <<>>

\* the section of an endpoint, as the parts its text is assembled from
generateEndpointSection(ep, tys, goEx, jsEx, pyEx, elixirEx) ==
    [anchorId |-> anchorId(ep.name),
     method |-> ep.method,
     path |-> ep.path,
     title |-> ep.name,
     requestProps |-> requestProps(ep, tys),
     examplesArray |-> generateExamplesArray(ep, tys, goEx, jsEx, pyEx, elixirEx),
     responseCode |-> generateResponseCode(ep, tys)]

\* titles[category] in getCategoryTitle, as <<key, value>> pairs
titles ==
    << <<S_sprites, S_Sprites>>, <<S_exec, S_Exec>>,
       <<S_checkpoints, S_Checkpoints>>, <<S_services, S_Services>>,
       <<S_proxy, S_HTTPProxy>>, <<S_policy, S_Policy>>,
       <<S_organization, S_Organization>>, <<S_tokens, S_Tokens>>,
       <<S_files, S_Files>>, <<S_filesystem, S_Filesystem>>,
       <<S_attach, S_Attach>> >>

\* titles[category] || category.charAt(0).toUpperCase() + category.slice(1)
getCategoryTitle(category) ==
    IF \E i \in DOMAIN titles : titles[i][1] = category
    THEN titles[CHOOSE i \in DOMAIN titles : titles[i][1] = category][2]
    ELSE IF category = <<>> THEN <<>>
    ELSE <<toUpperChar(Head(category))>> \o Tail(category)

\* the page of a category: its title and the sections of its endpoints
generateCategoryPage(category, endpoints, tys, allExamples) ==
    [title |-> getCategoryTitle(category),
     sections |->
        [i \in DOMAIN endpoints |->
            LET ep == endpoints[i]
            IN  generateEndpointSection(
                    ep, tys,
                    findExample(allExamples.go, ep.method, ep.path),
                    findExample(allExamples.js, ep.method, ep.path),
                    findExample(allExamples.python, ep.method, ep.path),
                    findExample(allExamples.elixir, ep.method, ep.path))]]

(***************************************************************************)
(* The sidebar (generateSidebarItems)                                      *)
(***************************************************************************)

ManualEndpoint(method, title) == [method |-> method, title |-> title]

\* the pages written by hand; every one of them lists its endpoints
MANUAL_PAGES ==
    << [category |-> S_sprites,
        title |-> S_Sprites,
        endpoints |-> << ManualEndpoint(S_POST, S_CreateSprite),
                         ManualEndpoint(S_GET, S_ListSprites),
                         ManualEndpoint(S_GET, S_GetSprite),
                         ManualEndpoint(S_PUT, S_UpdateSprite),
                         ManualEndpoint(S_DELETE, S_DeleteSprite) >>] >>

\* a sidebar item: a page by slug, a link with attributes, or a group; only a
\* group has the property collapsed, FALSE stands for its absence
SlugItem(label, slug) ==
    [kind |-> "slug", label |-> label, target |-> slug, dataMethod |-> EmptyString,
     collapsed |-> FALSE, items |-> <<>>]

LinkItem(label, link, dataMethod) ==
    [kind |-> "link", label |-> label, target |-> link, dataMethod |-> dataMethod,
     collapsed |-> FALSE, items |-> <<>>]

GroupItem(label, items) ==
    [kind |-> "group", label |-> label, target |-> EmptyString,
     dataMethod |-> EmptyString, collapsed |-> TRUE, items |-> items]

\* attributes that keep the method as it is written
getMethodAttrsVerbatim(method) == method

\* the value of the attribute 'data-method'
getMethodAttrs(method) == toLowerCase(method)

\* a slug that keeps a leading or trailing hyphen
slugifyEndpointNoTrim(title) == replaceNonAlnumRuns(toLowerCase(title))

slugifyEndpoint(title) == trimHyphens(replaceNonAlnumRuns(toLowerCase(title)))

\* `/api/${versionId}/${category}#${slugifyEndpoint(title)}`
endpointLink(id, category, title) ==
    S_slashApiSlash \o id \o S_slash \o category \o S_hash \o slugifyEndpoint(title)

\* the item of a manual page or of a generated category
sidebarEntry(id, label, category, methods, labels) ==
    IF Len(labels) > 0
    THEN GroupItem(label,
                   [i \in DOMAIN labels |->
                       LinkItem(labels[i], endpointLink(id, category, labels[i]),
                                getMethodAttrs(methods[i]))])
    ELSE SlugItem(label, S_apiSlash \o id \o S_slash \o category)

generateSidebarItems(cats, byCategory, id) ==
    <<SlugItem(S_Overview, S_apiSlash \o id)>>
    \o [p \in DOMAIN MANUAL_PAGES |->
          LET page == MANUAL_PAGES[p]
          IN  sidebarEntry(id, page.title, page.category,
                           [i \in DOMAIN page.endpoints |-> page.endpoints[i].method],
                           [i \in DOMAIN page.endpoints |-> page.endpoints[i].title])]
    \o [c \in DOMAIN cats |->
          LET endpoints == IF cats[c] \in DOMAIN byCategory THEN byCategory[cats[c]]
                           ELSE <<>>
          IN  sidebarEntry(id, getCategoryTitle(cats[c]), cats[c],
                           [i \in DOMAIN endpoints |-> endpoints[i].method],
                           [i \in DOMAIN endpoints |-> endpoints[i].name])]
    \o <<SlugItem(S_TypeDefinitions, S_apiSlash \o id \o S_typesPage)>>

(***************************************************************************)
(* generateVersionDocs                                                     *)
(***************************************************************************)

\* endpoint.category || 'other'
categoryOf(ep) == IF TruthyString(ep.category) THEN ep.category ELSE S_other

\* the grouping loop: the endpoints of each category, in schema order
groupByCategory(endpoints) ==
    [c \in {categoryOf(endpoints[i]) : i \in DOMAIN endpoints} |->
        LET InCategory(ep) == categoryOf(ep) = c
        IN  SelectSeq(endpoints, InCategory)]

\* Object.keys(endpointsByCategory).sort()
sortedCategories(byCategory) == sortStrings(DOMAIN byCategory)


(***************************************************************************)
(* States in which a family of functions has not been applied              *)
(***************************************************************************)

FormatIdle ==
    /\ goType = EmptyString
    /\ display = EmptyString
    /\ redisplay = EmptyString

PropertyIdle ==
    /\ fields = <<>>
    /\ depth = 0
    /\ properties = <<>>

EndpointIdle ==
    /\ endpoint = NoEndpoint
    /\ sdk = NoExamples

RenderIdle ==
    /\ responseCode = EmptyString
    /\ examplesArray = <<>>
    /\ httpExample = EmptyString

VersionIdle ==
    /\ schemaEndpoints = <<>>
    /\ versionId = EmptyString
    /\ categories = <<>>
    /\ endpointsByCategory = <<>>
    /\ pages = <<>>
    /\ sidebarItems = <<>>

FragmentIdle ==
    /\ websocketMessages = NoTypes
    /\ fragment = <<>>

RunIdle ==
    /\ pc = "idle"
    /\ dirs = {}
    /\ files = <<>>
    /\ dirEntries = {}
    /\ versionIndex = 0
    /\ requests = <<>>
    /\ categoryIndex = 0
    /\ faults = 0
    /\ error = <<>>
    /\ completed = <<>>
    /\ written = {}
    /\ manualAtStart = <<>>
    /\ cleanCaught = FALSE

CommandsIdle ==
    /\ helpOutputs = <<>>
    /\ globalOptions = <<>>
    /\ manualSections = <<>>
    /\ mdxContent = <<>>
    /\ extracted = <<>>

DriverIdle ==
    /\ cliPc = "idle"
    /\ skipTests = FALSE
    /\ report = <<>>
    /\ testSprite = <<>>
    /\ cmdIndex = 0
    /\ thrown = <<>>
    /\ calls = <<>>
    /\ consoleError = <<>>
    /\ reportFile = <<>>
    /\ printedReport = <<>>
    /\ exitCode = -1

CliIdle == CommandsIdle /\ DriverIdle

RewriteIdle ==
    /\ givenUrl = <<>>
    /\ targetVersionId = <<>>
    /\ rewritten = <<>>
    /\ sidebarEntries = <<>>
    /\ transformed = <<>>

ParserIdle ==
    /\ helpLines = <<>>
    /\ lineNo = 0
    /\ parseResult = <<>>
    /\ currentSection = "none"
    /\ currentOption = <<>>

CommandIdle ==
    /\ timer = "unset"
    /\ procEvents = {}
    /\ signals = <<>>
    /\ stdout = <<>>
    /\ stderr = <<>>
    /\ promise = <<>>
    /\ resolveCalls = <<>>

GroupingIdle ==
    /\ groupIndex = 0
    /\ groupError = <<>>

RestIdle == ParserIdle /\ CommandIdle /\ GroupingIdle

MoreIdle == RewriteIdle /\ RestIdle

LaterIdle == FragmentIdle /\ RunIdle /\ CliIdle /\ MoreIdle

(***************************************************************************)
(* Specification of the type formatter                                     *)
(***************************************************************************)

\* the primitive descriptors: the keys of typeMap
Primitives == {typeMap[i][1] : i \in DOMAIN typeMap}

\* the most markers ('*', '[]') in front of a descriptor
MaxMarkers == 2

RECURSIVE MarkerPrefixes(_)
MarkerPrefixes(n) ==
    IF n = 0 THEN {EmptyString}
    ELSE LET shorter == MarkerPrefixes(n - 1)
         IN  shorter \cup {m \o p : m \in {S_star, S_brackets}, p \in shorter}

\* descriptors without markers: the primitives, their display notations, maps,
\* a user-defined type name and the empty descriptor
BaseDescriptors ==
    Primitives
    \cup {S_boolean, S_number, S_iso8601, S_duration, S_object, S_record}
    \cup {S_mapStringInterface, S_mapStringAny, S_mapStringString, S_mapStringInt}
    \cup {S_Sprite, EmptyString}

Descriptors == {p \o b : p \in MarkerPrefixes(MaxMarkers), b \in BaseDescriptors}

InitFormat ==
    /\ step = "input"
    /\ goType \in Descriptors
    /\ display = EmptyString
    /\ redisplay = EmptyString
    /\ types = NoTypes
    /\ PropertyIdle
    /\ EndpointIdle
    /\ RenderIdle
    /\ VersionIdle
    /\ LaterIdle

\* formatType(goType)
FormatType ==
    /\ step = "input"
    /\ display' = formatType(goType)
    /\ step' = "formatType"
    /\ UNCHANGED <<goType, redisplay, types, propertyVars, endpoint, sdk,
                   renderVars, versionVars, laterVars>>

\* formatType applied to its own result
FormatTypeAgain ==
    /\ step = "formatType"
    /\ redisplay' = formatType(display)
    /\ step' = "formatTypeAgain"
    /\ UNCHANGED <<goType, display, types, propertyVars, endpoint, sdk,
                   renderVars, versionVars, laterVars>>

NextFormat == FormatType \/ FormatTypeAgain

SpecFormat == InitFormat /\ [][NextFormat]_vars

\* C7: formatType is idempotent on the primitive descriptors of its table
IdempotentOnPrimitives ==
    (step = "formatTypeAgain" /\ goType \in Primitives) => redisplay = display

\* a primitive whose display notation differs from it, formatted twice
TimestampFormattedTwice ==
    /\ step = "formatTypeAgain"
    /\ goType = S_timeTime
    /\ display = S_iso8601
    /\ redisplay = S_iso8601

\* C8 as stated: for every descriptor d, formatType('*' + d) is
\* formatType(d) + '?' and formatType('[]' + d) is formatType(d) + '[]'
MarkersComposeEverywhere ==
    step = "formatType" =>
        /\ startsWith(goType, S_star) =>
              display = formatType(slice(goType, 1)) \o S_question
        /\ startsWith(goType, S_brackets) =>
              display = formatType(slice(goType, 2)) \o S_brackets

S_seqOfOptInt == S_brackets \o S_star \o S_int
S_optSeqOfInt == S_star \o S_brackets \o S_int
S_numberOptSeq == S_numberOpt \o S_brackets
S_numberSeqOpt == S_number \o S_brackets \o S_question

\* C8 as amended: for every descriptor d other than 'Duration',
\* formatType('*' + d) is formatType(d) + '?' ('*Duration' is 'duration?');
\* for every d, formatType('[]' + d) is formatType(d) + '[]'; '[]*int' is
\* 'number?[]' and '*[]int' is 'number[]?'
MarkersCompose ==
    step = "formatType" =>
        /\ (startsWith(goType, S_star) /\ slice(goType, 1) # S_Duration) =>
              display = formatType(slice(goType, 1)) \o S_question
        /\ goType = S_star \o S_Duration => display = S_durationOpt
        /\ startsWith(goType, S_brackets) =>
              display = formatType(slice(goType, 2)) \o S_brackets
        /\ goType = S_seqOfOptInt => display = S_numberOptSeq
        /\ goType = S_optSeqOfInt => display = S_numberSeqOpt

\* a sequence of optional integers, formatted
SeqOfOptionalFormatted ==
    /\ step = "formatType"
    /\ goType = S_seqOfOptInt
    /\ display = S_numberOptSeq

(***************************************************************************)
(* Specification of the property trees                                     *)
(***************************************************************************)

\* the type descriptors of the fields of the type tables: a primitive (an
\* identifier that is no key of the table) and the named types A and B: plain,
\* as a sequence in Go notation ('[]A'), and with a trailing marker ('B[]')
FieldTypes ==
    {S_string, S_A, S_B, S_brackets \o S_A, S_B \o S_brackets}

\* the most fields of a type
MaxFields == 2

PlainFields == {TypeField(S_F, S_f, ty, FALSE) : ty \in FieldTypes}

PlainFieldLists == SeqsUpTo(PlainFields, MaxFields)

\* a type of the table: a field list, or none at all
PlainTypes ==
    {APIType(TRUE, fl, Undefined) : fl \in PlainFieldLists}
    \cup {APIType(FALSE, <<>>, Undefined)}

\* the tables over A and B, cyclic ones included
PlainTypeTables == [{S_A, S_B} -> PlainTypes]

InitProperties ==
    /\ step = "input"
    /\ FormatIdle
    /\ types \in PlainTypeTables
    /\ fields = types[S_A].fields
    /\ depth \in {0, DepthCap + 1}
    /\ properties = <<>>
    /\ EndpointIdle
    /\ RenderIdle
    /\ VersionIdle
    /\ LaterIdle

\* convertTypeFieldsToProperties(fields, types, depth)
ConvertTypeFieldsToProperties ==
    /\ step = "input"
    /\ properties' = convertTypeFieldsToProperties(fields, types, depth)
    /\ step' = "convertTypeFieldsToProperties"
    /\ UNCHANGED <<formatVars, types, fields, depth, endpoint, sdk, renderVars,
                   versionVars, laterVars>>

NextProperties == ConvertTypeFieldsToProperties

SpecProperties == InitProperties /\ [][NextProperties]_vars

\* the number of nesting levels of a property tree (0 for an empty list)
RECURSIVE Levels(_)
Levels(props) ==
    IF props = <<>> THEN 0
    ELSE LET deepest == CHOOSE i \in DOMAIN props :
                \A j \in DOMAIN props :
                    Levels(props[j].children) <= Levels(props[i].children)
         IN  1 + Levels(props[deepest].children)

\* C5: for every type table, cyclic ones included, the conversion terminates
\* (it yields a list for every input: one property per field, none at depth
\* 4); a call at depth 4 returns the empty list, and the tree of a call at
\* depth 0 has nodes at depths 0 to 3 only (at most four levels)
DepthCapHolds ==
    /\ step = "input" =>
          Len(convertTypeFieldsToProperties(fields, types, depth))
            = (IF depth = 4 THEN 0 ELSE Len(fields))
    /\ step = "convertTypeFieldsToProperties" =>
          /\ depth = 4 => properties = <<>>
          /\ depth = 0 => Levels(properties) <= 4

\* a self-referential type expanded from depth 0 down to the cap: four levels
DepthCapReached ==
    /\ step = "convertTypeFieldsToProperties"
    /\ depth = 0
    /\ \E i \in DOMAIN fields : fields[i].type = S_A
    /\ Levels(properties) = 4

\* the named type a descriptor refers to, as the claim reads descriptors: a
\* single identifier, alone or carrying a sequence marker ('[]Sprite', or
\* 'Sprite[]')
NamedTypeOf(ty) ==
    LET base == IF startsWith(ty, S_brackets) THEN slice(ty, 2)
                ELSE IF endsWith(ty, S_brackets) THEN SubSeq(ty, 1, Len(ty) - 2)
                ELSE ty
    IN  [matched |-> base # EmptyString /\ \A i \in DOMAIN base : IsWordChar(base[i]),
         typeName |-> base]

\* C6: a field whose descriptor is a single identifier, optionally carrying a
\* sequence marker, and whose identifier is a key of the type table (with a
\* field list) gets as children the referenced type's fields expanded at
\* depth+1; a field whose identifier does not resolve gets no children
ChildrenOfNamedTypes ==
    (step = "convertTypeFieldsToProperties" /\ depth = 0) =>
        \A i \in DOMAIN fields :
            LET ref == NamedTypeOf(fields[i].type)
            IN  IF ref.matched /\ HasFieldList(types, ref.typeName)
                THEN /\ properties[i].hasChildren
                     /\ properties[i].children =
                            convertTypeFieldsToProperties(
                                types[ref.typeName].fields, types, depth + 1)
                ELSE ~properties[i].hasChildren



(***************************************************************************)
(* Specification of the response examples                                  *)
(***************************************************************************)

S_refA == S_typesRefPrefix \o S_A
S_refB == S_typesRefPrefix \o S_B
S_refC == S_typesRefPrefix \o S_C

\* an example object {"id": tag}
ExampleObject(tag) == JsObject(<< <<S_id, JsString(tag)>> >>)

\* the most entries of endpoint.responses
MaxResponses == 2

\* response entries: with and without a body, with the success status and
\* others, referring to a type with or without an example, or to none
ResponseEntries ==
    {APIResponse(404, FALSE, EmptyString), APIResponse(200, FALSE, EmptyString),
     APIResponse(200, TRUE, S_refA), APIResponse(200, TRUE, S_refB),
     APIResponse(200, TRUE, S_refC), APIResponse(201, TRUE, S_refA)}

\* endpoint.response: none, a reference (resolving or not), inline fields (none,
\* one, two with the same wire name, two with different ones), or an object
\* with both keys
ResponseDescriptors ==
    {NoDescriptor, RefDescriptor(S_refA), RefDescriptor(S_refB), RefDescriptor(S_refC),
     InlineDescriptor(<<>>),
     InlineDescriptor(<<TypeField(S_F, S_f, S_brackets \o S_int, FALSE)>>),
     InlineDescriptor(<<TypeField(S_F, S_f, S_string, FALSE),
                        TypeField(S_A, S_f, S_star \o S_bool, FALSE)>>),
     InlineDescriptor(<<TypeField(S_F, S_id, S_timeTime, FALSE),
                        TypeField(S_A, S_a, S_star \o S_Sprite, TRUE)>>),
     Descriptor(TRUE, TRUE, S_refB, TRUE, <<TypeField(S_F, S_f, S_string, FALSE)>>)}

\* the examples an endpoint carries: none, null, a text, an object
EndpointExamples == {Undefined, Null, JsString(S_e), ExampleObject(S_e)}

\* type tables whose types carry examples or not
ExampleTypeTables ==
    {[name \in {S_A, S_B} |->
        APIType(TRUE, <<>>, IF name = S_A THEN exA ELSE exB)] :
        exA \in {Undefined, ExampleObject(S_a), JsArray(<<JsNumber(1), JsObject(<<>>)>>)},
        exB \in {Undefined, Null, ExampleObject(S_b)}}

InitResponse ==
    /\ step = "input"
    /\ FormatIdle
    /\ PropertyIdle
    /\ types \in ExampleTypeTables
    /\ \E rs \in SeqsUpTo(ResponseEntries, MaxResponses),
          r \in ResponseDescriptors, ex \in EndpointExamples :
            endpoint = APIEndpoint(EmptyString, EmptyString, S_GET, EmptyString,
                                   NoDescriptor, r, rs, ex)
    /\ sdk = NoExamples
    /\ RenderIdle
    /\ VersionIdle
    /\ LaterIdle

\* generateResponseCode(endpoint, types)
GenerateResponseCode ==
    /\ step = "input"
    /\ responseCode' = generateResponseCode(endpoint, types)
    /\ step' = "generateResponseCode"
    /\ UNCHANGED <<formatVars, types, propertyVars, endpoint, sdk, examplesArray,
                   httpExample, versionVars, laterVars>>

NextResponse == GenerateResponseCode

SpecResponse == InitResponse /\ [][NextResponse]_vars

\* a value is an example when it is present (neither undefined nor null)
IsExample(v) == v.t \notin {"undefined", "null"}

\* the responses of status 200 that carry a body
SuccessBodies(ep) ==
    {i \in DOMAIN ep.responses : ep.responses[i].status = 200 /\ ep.responses[i].hasBody}

\* the type example behind the first 200 response that carries a body
FirstSuccessExample(ep, tys) ==
    IF SuccessBodies(ep) = {} THEN Undefined
    ELSE LET i == CHOOSE k \in SuccessBodies(ep) : \A j \in SuccessBodies(ep) : k <= j
             name == typeNameOfRef(ep.responses[i].ref)
         IN  IF name \in DOMAIN tys THEN tys[name].example ELSE Undefined

\* the example of the type endpoint.response refers to
ResponseTypeExample(ep, tys) ==
    IF ep.response.hasRef /\ typeNameOfRef(ep.response.ref) \in DOMAIN tys
    THEN tys[typeNameOfRef(ep.response.ref)].example
    ELSE Undefined

\* the object with one key per wire name of the fields, in the order the names
\* first occur, each mapped to '<' + formatType(type) + '>' of the last field
\* of that name
PlaceholderObject(fs) ==
    LET firsts == {i \in DOMAIN fs : \A j \in 1..(i - 1) : fs[j].json # fs[i].json}
        nth(k) == CHOOSE i \in firsts : Cardinality({j \in firsts : j < i}) = k - 1
        lastOf(key) == CHOOSE i \in DOMAIN fs :
                          /\ fs[i].json = key
                          /\ \A j \in (i + 1)..Len(fs) : fs[j].json # key
    IN  JsObject([k \in 1..Cardinality(firsts) |->
                    <<fs[nth(k)].json,
                      JsString(S_lt \o formatType(fs[lastOf(fs[nth(k)].json)].type)
                               \o S_gt)>>])

S_exampleEText ==
    <<"{", "\n", " ", " ", "\"", "i", "d", "\"", ":", " ", "\"", "e", "\"", "\n",
      "}">>

S_spritePath ==
    <<"/", "v", "1", "/", "s", "p", "r", "i", "t", "e", "s", "/", "{", "n", "a",
      "m", "e", "}">>
S_execPath ==
    <<"/", "v", "1", "/", "s", "p", "r", "i", "t", "e", "s", "/", "{", "n", "a",
      "m", "e", "}", "/", "e", "x", "e", "c">>
S_otherPath == <<"/", "v", "1", "/", "o", "t", "h", "e", "r">>
S_blank == <<" ">>
S_cliText == <<"s", "p", "r", "i", "t", "e", " ", "l", "i", "s", "t", " ">>
S_cliTrimmed == <<"s", "p", "r", "i", "t", "e", " ", "l", "i", "s", "t">>
S_codeText == <<" ", "r", "u", "n", "(", "$", "n", "a", "m", "e", ")">>
S_codeEscaped == <<"r", "u", "n", "(", "\\", "$", "n", "a", "m", "e", ")">>

\* the examples a language's set holds for an endpoint: the command line
\* absent, blank or given, the snippet absent or given
FoundExamples ==
    {SDKExample(TRUE, code, cli) :
        code \in {EmptyString, S_codeText},
        cli \in {EmptyString, S_blank, S_cliText}}

\* the example set of one language: empty, holding an example for the
\* endpoint, or holding one for another endpoint only
LanguageExamples(method, path) ==
    {NoSDKExamples}
    \cup {SDKExamples([key \in {getEndpointKey(method, path)} |-> ex],
                      [key \in {} |-> NoSDKExample]) : ex \in FoundExamples}
    \cup {SDKExamples([key \in {} |-> NoSDKExample],
                      [key \in {getEndpointKey(method, S_otherPath)} |->
                          SDKExample(TRUE, S_codeText, S_cliText)])}

ExampleEndpoints ==
    {APIEndpoint(S_ListSprites, S_spritePath, S_GET, S_sprites, NoDescriptor,
                 NoDescriptor, <<>>, Undefined),
     APIEndpoint(S_Exec, S_execPath, S_WSS, S_exec, NoDescriptor,
                 NoDescriptor, <<>>, Undefined)}

InitExamples ==
    /\ step = "input"
    /\ FormatIdle
    /\ PropertyIdle
    /\ types = NoTypes
    /\ endpoint \in ExampleEndpoints
    /\ sdk \in [go : LanguageExamples(endpoint.method, endpoint.path),
                js : LanguageExamples(endpoint.method, endpoint.path),
                python : LanguageExamples(endpoint.method, endpoint.path),
                elixir : LanguageExamples(endpoint.method, endpoint.path)]
    /\ RenderIdle
    /\ VersionIdle
    /\ LaterIdle

\* the examples generateCategoryPage finds for the endpoint, by language
foundExamples(allExamples, ep) ==
    [go |-> findExample(allExamples.go, ep.method, ep.path),
     js |-> findExample(allExamples.js, ep.method, ep.path),
     python |-> findExample(allExamples.python, ep.method, ep.path),
     elixir |-> findExample(allExamples.elixir, ep.method, ep.path)]

\* generateExamplesArray(endpoint, types, goEx, jsEx, pyEx, elixirEx) on the
\* examples found for the endpoint
GenerateExamplesArray ==
    /\ step = "input"
    /\ LET found == foundExamples(sdk, endpoint)
       IN  examplesArray' =
              generateExamplesArray(endpoint, types, found.go, found.js,
                                    found.python, found.elixir)
    /\ step' = "generateExamplesArray"
    /\ UNCHANGED <<formatVars, types, propertyVars, endpoint, sdk, responseCode,
                   httpExample, versionVars, laterVars>>

NextExamples == GenerateExamplesArray

SpecExamples == InitExamples /\ [][NextExamples]_vars

\* a found example supplies a non-blank command line
SuppliesCli(ex) == ex.present /\ trim(ex.cli_command) # EmptyString

\* a found example supplies a snippet
SuppliesSnippet(ex) == ex.present /\ trim(ex.sdk_code) # EmptyString

\* the languages of the entries of a list, in order
LanguagesOf(entries) == [i \in DOMAIN entries |-> entries[i].language]

\* C2: the list is the subsequence of [cli, go, javascript, python, elixir,
\* curl] of the entries whose source is present (cli: some language supplies a
\* command line; a language: it supplies a snippet; curl: always), in that
\* order, with the wire-level example last and no empty entry
ExamplesInFixedOrder ==
    step = "generateExamplesArray" =>
        LET found == foundExamples(sdk, endpoint)
            Present(language) ==
                CASE language = S_cli ->
                        \/ SuppliesCli(found.go) \/ SuppliesCli(found.js)
                        \/ SuppliesCli(found.python) \/ SuppliesCli(found.elixir)
                  [] language = S_go -> SuppliesSnippet(found.go)
                  [] language = S_javascript -> SuppliesSnippet(found.js)
                  [] language = S_python -> SuppliesSnippet(found.python)
                  [] language = S_elixir -> SuppliesSnippet(found.elixir)
                  [] OTHER -> TRUE
        IN  /\ LanguagesOf(examplesArray) =
                  SelectSeq(<<S_cli, S_go, S_javascript, S_python, S_elixir, S_curl>>,
                            Present)
            /\ examplesArray[Len(examplesArray)].language = S_curl
            /\ \A i \in DOMAIN examplesArray : examplesArray[i].code # EmptyString

\* C3: the list starts with a CLI entry whenever the example found in any
\* language (go, js, python or elixir) supplies a non-blank command line
CliFromAnyLanguage ==
    step = "generateExamplesArray" =>
        LET found == foundExamples(sdk, endpoint)
        IN  (\/ SuppliesCli(found.go) \/ SuppliesCli(found.js)
             \/ SuppliesCli(found.python) \/ SuppliesCli(found.elixir))
            => examplesArray[1].language = S_cli



(***************************************************************************)
(* Specification of the wire-level examples                                *)
(***************************************************************************)

S_Cmd == <<"C", "m", "d">>
S_Comment == <<"C", "o", "m", "m", "e", "n", "t">>
S_Args == <<"A", "r", "g", "s">>
S_Env == <<"E", "n", "v">>
S_env == <<"e", "n", "v">>
S_Port == <<"P", "o", "r", "t">>
S_HTTPPort == <<"H", "T", "T", "P", "P", "o", "r", "t">>
S_http_port == <<"h", "t", "t", "p", "_", "p", "o", "r", "t">>
S_TTL == <<"T", "T", "L">>
S_ttl == <<"t", "t", "l">>
S_Report == <<"R", "e", "p", "o", "r", "t">>
S_report == <<"r", "e", "p", "o", "r", "t">>
S_WorkDir == <<"W", "o", "r", "k", "D", "i", "r">>
S_work_dir == <<"w", "o", "r", "k", "_", "d", "i", "r">>
S_Force == <<"F", "o", "r", "c", "e">>
S_force == <<"f", "o", "r", "c", "e">>
S_Tag == <<"T", "a", "g">>
S_tag == <<"t", "a", "g">>
S_servicePath ==
    <<"/", "v", "1", "/", "s", "p", "r", "i", "t", "e", "s", "/", "{", "n", "a",
      "m", "e", "}", "/", "s", "e", "r", "v", "i", "c", "e", "s", "/", "{", "n",
      "a", "m", "e", "}">>
S_checkpointPath ==
    <<"/", "v", "1", "/", "s", "p", "r", "i", "t", "e", "s", "/", "{", "n", "a",
      "m", "e", "}", "/", "c", "h", "e", "c", "k", "p", "o", "i", "n", "t", "s",
      "/", "{", "c", "h", "e", "c", "k", "p", "o", "i", "n", "t", "_", "i", "d",
      "}">>
S_threeNamesPath ==
    <<"/", "v", "1", "/", "{", "n", "a", "m", "e", "}", "/", "{", "n", "a", "m",
      "e", "}", "/", "{", "n", "a", "m", "e", "}">>
S_bracesPath ==
    <<"/", "v", "1", "/", "o", "r", "g", "s", "/", "{", "o", "r", "g", "}", "/",
      "x", "{", "}", "y", "/", "{", "a", "-", "b", "}">>

\* the fields of request types: the names and types the rule table mentions
\* and names and types around them
RequestFields ==
    {TypeField(S_Cmd, S_cmd, S_string, FALSE),
     TypeField(S_Cmd, S_cmd, S_seqString, FALSE),
     TypeField(S_Comment, S_comment, S_string, TRUE),
     TypeField(S_Args, S_args, S_seqString, FALSE),
     TypeField(S_Env, S_env, S_seqString, TRUE),
     TypeField(S_Port, S_port, S_int, FALSE),
     TypeField(S_HTTPPort, S_http_port, S_optInt, TRUE),
     TypeField(S_TTL, S_ttl, S_int, TRUE),
     TypeField(S_Report, S_report, S_string, FALSE),
     TypeField(S_WorkDir, S_work_dir, S_string, FALSE),
     TypeField(S_Force, S_force, S_bool, TRUE),
     TypeField(S_Tag, EmptyString, S_string, FALSE)}

\* the most fields of a request type
MaxRequestFields == 2

\* the examples a request type carries: none, null, a text, an object without
\* keys, an object, an array
RequestExamples ==
    {Undefined, Null, JsString(S_e), JsObject(<<>>), ExampleObject(S_a),
     JsArray(<<JsString(S_x), JsNumber(1)>>)}

\* the request of an endpoint: none, a reference to the type A or to a type
\* the table lacks, or inline fields
RequestDescriptors ==
    {NoDescriptor, RefDescriptor(S_refA), RefDescriptor(S_refC),
     InlineDescriptor(<<TypeField(S_Cmd, S_cmd, S_string, FALSE)>>)}

CurlEndpoint(path, method, request) ==
    APIEndpoint(S_GetSprite, path, method, S_sprites, request, NoDescriptor, <<>>,
                Undefined)

\* the inputs: every method and request over types with and without an
\* example; every field list behind a POST or PUT; every path
InitCurl ==
    /\ step = "input"
    /\ FormatIdle
    /\ PropertyIdle
    /\ \/ /\ \E ex \in RequestExamples :
                \E t \in {APIType(FALSE, <<>>, ex), APIType(TRUE, <<>>, ex),
                          APIType(TRUE, <<TypeField(S_Cmd, S_cmd, S_string, FALSE)>>,
                                  ex)} :
                   types = [name \in {S_A} |-> t]
          /\ \E m \in {S_GET, S_POST, S_PUT, S_PATCH, S_DELETE, S_WSS},
                r \in RequestDescriptors :
                   endpoint = CurlEndpoint(S_spritePath, m, r)
       \/ /\ \E fl \in SeqsUpTo(RequestFields, MaxRequestFields) :
                   types = [name \in {S_A} |-> APIType(TRUE, fl, Undefined)]
          /\ \E m \in {S_POST, S_PUT} :
                   endpoint = CurlEndpoint(S_spritePath, m, RefDescriptor(S_refA))
       \/ /\ types = NoTypes
          /\ \E p \in {S_otherPath, S_servicePath, S_checkpointPath,
                       S_threeNamesPath, S_bracesPath},
                m \in {S_GET, S_DELETE, S_WSS} :
                   endpoint = CurlEndpoint(p, m, NoDescriptor)
    /\ sdk = NoExamples
    /\ RenderIdle
    /\ VersionIdle
    /\ LaterIdle

\* generateHttpExample(endpoint, types)
GenerateHttpExample ==
    /\ step = "input"
    /\ httpExample' = generateHttpExample(endpoint, types)
    /\ step' = "generateHttpExample"
    /\ UNCHANGED <<formatVars, types, propertyVars, endpoint, sdk, responseCode,
                   examplesArray, versionVars, laterVars>>

NextCurl == GenerateHttpExample

SpecCurl == InitCurl /\ [][NextCurl]_vars

\* the type the request of the endpoint refers to; none when it is no
\* reference or the table lacks the type
RequestType(ep, tys) ==
    IF ep.request.present /\ ep.request.hasRef
       /\ typeNameOfRef(ep.request.ref) \in DOMAIN tys
    THEN tys[typeNameOfRef(ep.request.ref)]
    ELSE APIType(FALSE, <<>>, Undefined)

\* the text of the command carries the body: -d '<JSON>'
CarriesBody(text, value) ==
    includes(text, S_dashD \o stringify(value, 0) \o S_apostrophe)

\* the text of the command carries no body
CarriesNoBody(text) == ~includes(text, S_dashD)

\* C9 as stated: when the request of an endpoint (one with a wire-level
\* request, not a socket) refers to a type that carries an example, the body
\* of the command is that example verbatim
RequestExampleVerbatim ==
    (/\ step = "generateHttpExample"
     /\ endpoint.method # S_WSS
     /\ IsExample(RequestType(endpoint, types).example))
    => CarriesBody(httpExample, RequestType(endpoint, types).example)

\* C9 as amended: when the request of a POST or PUT endpoint refers to a type
\* whose example is an object or array, the body of the command is that
\* example verbatim (no body when the example has no keys), whatever the
\* fields of the type
RequestExampleOfPostOrPut ==
    (/\ step = "generateHttpExample"
     /\ endpoint.method \in {S_POST, S_PUT}
     /\ RequestType(endpoint, types).example.t \in {"object", "array"})
    => LET ex == RequestType(endpoint, types).example
       IN  IF ex.props # <<>>
           THEN /\ CarriesBody(httpExample, ex)
                /\ countOccurrences(httpExample, S_dashD) = 1
           ELSE CarriesNoBody(httpExample)

S_bodyExampleA ==
    <<" ", " ", "-", "d", " ", "'", "{", "\"", "i", "d", "\"", ":", "\"", "a",
      "\"", "}", "'">>

\* a POST to a type with an example and a field 'Cmd': the example is the
\* body, and the value the rule table gives 'Cmd' is not in it
ExampleBodySent ==
    /\ step = "generateHttpExample"
    /\ endpoint.method = S_POST
    /\ endpoint.request = RefDescriptor(S_refA)
    /\ types[S_A].example = ExampleObject(S_a)
    /\ Len(types[S_A].fields) = 1
    /\ includes(httpExample, S_bodyExampleA)
    /\ ~includes(httpExample, S_python)



S_pythonJson == <<"\"", "p", "y", "t", "h", "o", "n", "\"">>
S_myCheckpointJson ==
    <<"\"", "m", "y", " ", "c", "h", "e", "c", "k", "p", "o", "i", "n", "t", "\"">>
S_argsJson ==
    <<"[", "\"", "-", "m", "\"", ",", "\"", "h", "t", "t", "p", ".", "s", "e",
      "r", "v", "e", "r", "\"", ",", "\"", "8", "0", "0", "0", "\"", "]">>
S_zero == <<"0">>
S_memberSeparator == <<"\"", ":">>

\* the key of a field in the body: its wire name, or its lowercased name
FieldKey(f) == IF f.json # EmptyString THEN f.json ELSE toLowerCase(f.name)

\* the text "key":value of a member of the body
MemberText(key, valueText) == quote(key) \o S_colon \o valueText

\* the fields that settle a member of the body: those of the given types
\* that no later such field of the same key overrides
Settling(fs, tySet) ==
    {i \in DOMAIN fs :
        /\ fs[i].type \in tySet
        /\ \A j \in (i + 1)..Len(fs) :
              fs[j].type \in tySet => FieldKey(fs[j]) # FieldKey(fs[i])}

\* the request type of a POST or PUT endpoint is synthesized from its fields
SynthesizedFromFields ==
    /\ step = "generateHttpExample"
    /\ endpoint.method \in {S_POST, S_PUT}
    /\ endpoint.request.present
    /\ endpoint.request.hasRef
    /\ RequestType(endpoint, types).example.t \notin {"object", "array"}

\* C10 as stated: 'cmd' gets a command, 'comment' a text, every '[]string'
\* field an argument list, every field whose name contains 'port' a port
\* number, any other string field a placeholder derived from its wire name;
\* a type without fields gets no body
RuleTableAsStated ==
    SynthesizedFromFields =>
        LET fs == RequestType(endpoint, types).fields
            anyType == {fs[i].type : i \in DOMAIN fs}
            Expected(f) ==
                LET n == toLowerCase(f.name)
                IN  IF n = S_cmd THEN S_pythonJson
                    ELSE IF n = S_comment THEN S_myCheckpointJson
                    ELSE IF f.type = S_seqString THEN S_argsJson
                    ELSE IF includes(n, S_port) THEN S_8000
                    ELSE IF f.type = S_string THEN quote(S_myPrefix \o f.json)
                    ELSE EmptyString
        IN  /\ fs = <<>> => CarriesNoBody(httpExample)
            /\ \A i \in Settling(fs, anyType) :
                  Expected(fs[i]) # EmptyString =>
                      includes(httpExample, MemberText(FieldKey(fs[i]), Expected(fs[i])))

\* C10 as amended: the body has one member per key (wire name, or lowercased
\* name when the field has none) of the fields of type string, '[]string',
\* 'int' or '*int', the last field of a key settling its value: a string is
\* 'python' when the lowercased name is 'cmd', 'my checkpoint' when it is
\* 'comment', else 'my-' and the lowercased name; a '[]string' is the
\* argument list when the lowercased name is 'args', else the empty list; an
\* integer is 8000 when the lowercased name contains 'port', else 0; fields
\* of other types give no member, and without any member there is no body;
\* a request that is no reference (inline fields) gets no body
RuleTable ==
    /\ (/\ step = "generateHttpExample"
        /\ endpoint.method \in {S_POST, S_PUT}
        /\ ~endpoint.request.hasRef) => CarriesNoBody(httpExample)
    /\ SynthesizedFromFields =>
        LET ty == RequestType(endpoint, types)
            fs == ty.fields
            inTable == {S_string, S_seqString, S_int, S_optInt}
            Expected(f) ==
                LET n == toLowerCase(f.name)
                IN  IF f.type = S_string
                    THEN (IF n = S_cmd THEN S_pythonJson
                          ELSE IF n = S_comment THEN S_myCheckpointJson
                          ELSE quote(S_myPrefix \o n))
                    ELSE IF f.type = S_seqString
                    THEN (IF n = S_args THEN S_argsJson ELSE S_brackets)
                    ELSE (IF includes(n, S_port) THEN S_8000 ELSE S_zero)
            keys == {FieldKey(fs[i]) : i \in Settling(fs, inTable)}
        IN  IF ty.hasFields /\ keys # {}
            THEN /\ countOccurrences(httpExample, S_dashD) = 1
                 /\ countOccurrences(httpExample, S_memberSeparator) = Cardinality(keys)
                 /\ \A i \in Settling(fs, inTable) :
                       includes(httpExample,
                                MemberText(FieldKey(fs[i]), Expected(fs[i])))
            ELSE CarriesNoBody(httpExample)

S_bodyWorkDirPort ==
    <<" ", " ", "-", "d", " ", "'", "{", "\"", "w", "o", "r", "k", "_", "d", "i",
      "r", "\"", ":", "\"", "m", "y", "-", "w", "o", "r", "k", "d", "i", "r", "\"",
      ",", "\"", "p", "o", "r", "t", "\"", ":", "8", "0", "0", "0", "}", "'">>

\* a PUT whose type has the fields WorkDir (wire name work_dir) and Port
RuleTableApplied ==
    /\ step = "generateHttpExample"
    /\ endpoint.method = S_PUT
    /\ [i \in DOMAIN types[S_A].fields |-> types[S_A].fields[i].name]
          = <<S_WorkDir, S_Port>>
    /\ includes(httpExample, S_bodyWorkDirPort)



(***************************************************************************)
(* Specification of a version's pages and sidebar                          *)
(***************************************************************************)

S_rc30 == <<"v", "0", ".", "0", ".", "1", "-", "r", "c", "3", "0">>
S_devLatest == <<"d", "e", "v", "-", "l", "a", "t", "e", "s", "t">>
S_execWebSocket ==
    <<"E", "x", "e", "c", " ", "(", "W", "e", "b", "S", "o", "c", "k", "e", "t",
      ")", "!">>
S_execWebSocketSlug ==
    <<"e", "x", "e", "c", "-", "w", "e", "b", "s", "o", "c", "k", "e", "t">>
S_killSession ==
    <<"-", "-", "K", "i", "l", "l", " ", " ", "S", "e", "s", "s", "i", "o", "n",
      "_", "2", "-", "-">>
S_punctuation == <<"?", "!">>

\* the ids of API_VERSIONS
VersionIds == {S_rc30, S_devLatest}

\* endpoint names: words, punctuation inside and at the ends, upper case,
\* digits, nothing but punctuation
EndpointNames == {S_ListSprites, S_execWebSocket, S_killSession, S_punctuation}

\* the most endpoints of a schema
MaxEndpoints == 2

\* the endpoints of a schema: named, of a category with a title of its own,
\* of one without, or of none
SchemaEndpoints ==
    {APIEndpoint(name, S_spritePath, method, category, NoDescriptor, NoDescriptor,
                 <<>>, Undefined) :
        name \in EndpointNames,
        method \in {S_GET, S_WSS},
        category \in {EmptyString, S_proxy, S_a}}

InitVersion ==
    /\ step = "input"
    /\ FormatIdle
    /\ PropertyIdle
    /\ types = NoTypes
    /\ EndpointIdle
    /\ RenderIdle
    /\ schemaEndpoints \in SeqsUpTo(SchemaEndpoints, MaxEndpoints)
    /\ versionId \in VersionIds
    /\ categories = <<>>
    /\ endpointsByCategory = <<>>
    /\ pages = <<>>
    /\ sidebarItems = <<>>
    /\ LaterIdle

\* generateVersionDocs(version): the grouping, the category pages and the
\* sidebar built from the grouping
GenerateVersionDocs ==
    /\ step = "input"
    /\ LET byCategory == groupByCategory(schemaEndpoints)
           cats == sortedCategories(byCategory)
       IN  /\ endpointsByCategory' = byCategory
           /\ categories' = cats
           /\ pages' = [c \in DOMAIN byCategory |->
                           generateCategoryPage(c, byCategory[c], types, sdk)]
           /\ sidebarItems' = generateSidebarItems(cats, byCategory, versionId)
    /\ step' = "generateVersionDocs"
    /\ UNCHANGED <<formatVars, types, propertyVars, endpoint, sdk, renderVars,
                   schemaEndpoints, versionId, laterVars>>

NextVersion == GenerateVersionDocs

SpecVersion == InitVersion /\ [][NextVersion]_vars

\* the fragment of a link: what follows its '#'
FragmentOf(link) == slice(link, indexOf(link, S_hash))

\* the page of a link: what precedes its '#'
PageOf(link) == SubSeq(link, 1, indexOf(link, S_hash) - 1)

\* the sidebar item of the k-th category: after the overview and the manual
\* pages
CategoryItem(k) == sidebarItems[1 + Len(MANUAL_PAGES) + k]

\* C4: for every endpoint of every category of the schema, the sidebar link
\* built for the endpoint leads to the page of its category, and its fragment
\* is the anchor id of the section that page has for the endpoint
AnchorsMatchLinks ==
    step = "generateVersionDocs" =>
        /\ \A e \in DOMAIN schemaEndpoints :
              categoryOf(schemaEndpoints[e]) \in Range(categories)
        /\ \A k \in DOMAIN categories :
              LET category == categories[k]
                  sections == pages[category].sections
                  links == CategoryItem(k).items
              IN  /\ DOMAIN links = DOMAIN endpointsByCategory[category]
                  /\ DOMAIN sections = DOMAIN endpointsByCategory[category]
                  /\ \A i \in DOMAIN links :
                        /\ links[i].label = endpointsByCategory[category][i].name
                        /\ sections[i].title = endpointsByCategory[category][i].name
                        /\ PageOf(links[i].target) =
                              S_slashApiSlash \o versionId \o S_slash \o category
                        /\ FragmentOf(links[i].target) = sections[i].anchorId

\* an endpoint whose name has punctuation inside and at its end, linked from
\* the sidebar by the anchor of its section
PunctuatedNameLinked ==
    /\ step = "generateVersionDocs"
    /\ \E k \in DOMAIN categories :
          \E i \in DOMAIN CategoryItem(k).items :
              /\ CategoryItem(k).items[i].label = S_execWebSocket
              /\ FragmentOf(CategoryItem(k).items[i].target) = S_execWebSocketSlug
              /\ pages[categories[k]].sections[i].anchorId = S_execWebSocketSlug



(***************************************************************************)
(* Specification of the category pages of a schema with requests,          *)
(* responses and examples                                                  *)
(***************************************************************************)


\* the type table of the schema: A has a field and an example, C is missing
PageTypes ==
    [name \in {S_A} |->
        APIType(TRUE, <<TypeField(S_Cmd, S_cmd, S_string, FALSE)>>, ExampleObject(S_a))]

\* the endpoints of the schema: plain and socket endpoints; without a request,
\* with a request that resolves, with one that does not; without anything to
\* show as a response, with an example of their own, with a response type
PageEndpoints ==
    {APIEndpoint(IF method = S_WSS THEN S_execWebSocket ELSE S_CreateSprite,
                 IF method = S_WSS THEN S_execPath ELSE S_spritePath,
                 method, S_proxy, request, answer[1], <<>>, answer[2]) :
        method \in {S_POST, S_WSS},
        request \in {NoDescriptor, RefDescriptor(S_refA), RefDescriptor(S_refC)},
        answer \in {<<NoDescriptor, Undefined>>,
                    <<NoDescriptor, ExampleObject(S_e)>>,
                    <<RefDescriptor(S_refA), Undefined>>}}

InitPages ==
    /\ step = "input"
    /\ FormatIdle
    /\ PropertyIdle
    /\ types = PageTypes
    /\ EndpointIdle
    /\ RenderIdle
    /\ schemaEndpoints \in SeqsUpTo(PageEndpoints, MaxEndpoints)
    /\ versionId = S_devLatest
    /\ categories = <<>>
    /\ endpointsByCategory = <<>>
    /\ pages = <<>>
    /\ sidebarItems = <<>>
    /\ LaterIdle

SpecPages == InitPages /\ [][NextVersion]_vars

\* the endpoint is a socket endpoint
IsSocket(ep) == ep.method = S_WSS

\* the connection command of a path: the websocat call with the path put
\* into the socket URL and the authorization header, as it appears on a page
ConnectionCommand(path) ==
    escapeForMDX(S_websocatHead \o <<"\n">> \o S_twoSpaces \o S_quote \o S_wssBase
                 \o path \o S_quote \o lineContinuation \o S_authSprites)

\* C11: the section of every socket endpoint has no response JSON, and its
\* only generated example is the connection command built from the path,
\* which carries no request body
SocketSectionsSynthesizeNothing ==
    step = "generateVersionDocs" =>
        \A c \in DOMAIN pages :
            \A i \in DOMAIN pages[c].sections :
                IsSocket(endpointsByCategory[c][i]) =>
                    /\ pages[c].sections[i].responseCode = EmptyString
                    /\ ~includes(pages[c].sections[i].examplesArray[1].code, S_dashD)
                    /\ pages[c].sections[i].examplesArray =
                          <<ExampleEntry(S_curl,
                                         ConnectionCommand(endpointsByCategory[c][i].path))>>

\* the request of the endpoint refers to a type the table does not hold
Dangling(ep) ==
    /\ ep.request.present
    /\ ep.request.hasRef
    /\ typeNameOfRef(ep.request.ref) \notin DOMAIN types

\* the section shows the endpoint in full: its header, the properties of a
\* request type the table holds, the response example of an endpoint that has
\* one, and a wire-level example at the end of the example list
RenderedFully(section, ep) ==
    /\ section.title = ep.name
    /\ section.method = ep.method
    /\ section.path = ep.path
    /\ (ep.request.present /\ ~Dangling(ep)) =>
          /\ Len(section.requestProps) = Len(types[typeNameOfRef(ep.request.ref)].fields)
          /\ section.requestProps # <<>>
    /\ Truthy(ep.example) => section.responseCode = stringify(ep.example, 2)
    /\ section.examplesArray # <<>>
    /\ section.examplesArray[Len(section.examplesArray)].language = S_curl

\* C12: on every category page each endpoint has its section, in order; an
\* endpoint whose request refers to a missing type has no request body
\* properties, and it and all the endpoints beside it are rendered in full
DanglingRequestLeavesSiblings ==
    step = "generateVersionDocs" =>
        \A c \in DOMAIN pages :
            /\ DOMAIN pages[c].sections = DOMAIN endpointsByCategory[c]
            /\ \A i \in DOMAIN pages[c].sections :
                  /\ Dangling(endpointsByCategory[c][i]) =>
                        pages[c].sections[i].requestProps = <<>>
                  /\ RenderedFully(pages[c].sections[i], endpointsByCategory[c][i])

\* a page with an endpoint whose request refers to a missing type, next to an
\* endpoint whose request type resolves and is shown with its properties
DanglingBesideResolved ==
    /\ step = "generateVersionDocs"
    /\ \E c \in DOMAIN pages :
          \E i, j \in DOMAIN pages[c].sections :
              /\ Dangling(endpointsByCategory[c][i])
              /\ pages[c].sections[i].requestProps = <<>>
              /\ endpointsByCategory[c][j].request = RefDescriptor(S_refA)
              /\ pages[c].sections[j].requestProps # <<>>


(***************************************************************************)
(* Section renderers and the errors they throw                             *)
(***************************************************************************)

S_type == <<"t", "y", "p", "e">>
S_Event == <<"E", "v", "e", "n", "t">>
S_messagesRefPrefix ==
    <<"#", "/", "w", "e", "b", "s", "o", "c", "k", "e", "t", "_", "m", "e", "s",
      "s", "a", "g", "e", "s", "/">>
S_StreamingEvents ==
    <<"S", "t", "r", "e", "a", "m", "i", "n", "g", " ", "E", "v", "e", "n", "t",
      "s">>
S_Responses == <<"R", "e", "s", "p", "o", "n", "s", "e", "s">>
S_ClientToServer ==
    <<"C", "l", "i", "e", "n", "t", " ", "t", "o", " ", "S", "e", "r", "v", "e",
      "r", " ", "M", "e", "s", "s", "a", "g", "e", "s">>
S_ServerToClient ==
    <<"S", "e", "r", "v", "e", "r", " ", "t", "o", " ", "C", "l", "i", "e", "n",
      "t", " ", "M", "e", "s", "s", "a", "g", "e", "s">>
S_green ==
    <<"v", "a", "r", "(", "-", "-", "s", "l", "-", "c", "o", "l", "o", "r", "-",
      "g", "r", "e", "e", "n", ")">>
S_blue ==
    <<"v", "a", "r", "(", "-", "-", "s", "l", "-", "c", "o", "l", "o", "r", "-",
      "b", "l", "u", "e", ")">>
S_orange ==
    <<"v", "a", "r", "(", "-", "-", "s", "l", "-", "c", "o", "l", "o", "r", "-",
      "o", "r", "a", "n", "g", "e", ")">>
S_red ==
    <<"v", "a", "r", "(", "-", "-", "s", "l", "-", "c", "o", "l", "o", "r", "-",
      "r", "e", "d", ")">>

\* what a call gives back: the value returned, or the error thrown
Returned(value) == [threw |-> FALSE, value |-> value]
TypeError == [threw |-> TRUE, value |-> <<>>]

\* a heading line of a fragment (the arrows of the message headings are
\* written out as "to")
Heading(text) == [kind |-> "heading", text |-> text]

\* a row `| json | formatType(type) | description (const: "...") |`
fieldRow(field) ==
    [json |-> field.json, type |-> formatType(field.type), const |-> field.const]

\* the documentation of one type or message: its title, the rows of its field
\* table and the text of its example ('' when it has none)
TypeBlock(title, rows, example) ==
    [kind |-> "type", text |-> title, rows |-> rows, example |-> example]

\* generateResponseCode reads endpoint.responses.find when the endpoint has no
\* example: the call throws when there is no responses list
generateResponseCodeOutcome(ep, tys) ==
    IF ~Truthy(ep.example) /\ ~ep.hasResponses THEN TypeError
    ELSE Returned(generateResponseCode(ep, tys))

\* the colour of a status code
statusColor(status) ==
    IF status < 300 THEN S_green
    ELSE IF status < 400 THEN S_blue
    ELSE IF status < 500 THEN S_orange
    ELSE S_red

\* generateResponseStatusCodes(responses): '' without a list or without
\* entries, else the heading and one row per response
generateResponseStatusCodes(hasResponses, responses) ==
    IF ~hasResponses \/ Len(responses) = 0 THEN Returned(<<>>)
    ELSE Returned(<<Heading(S_Responses)>>
                  \o [i \in DOMAIN responses |->
                        [kind |-> "status",
                         text |-> natToString(responses[i].status),
                         color |-> statusColor(responses[i].status)]])

\* typeName.replace(/Event$/, '')
withoutEventSuffix(typeName) ==
    IF endsWith(typeName, S_Event)
    THEN SubSeq(typeName, 1, Len(typeName) - Len(S_Event))
    ELSE typeName

\* typeField?.const || typeName.replace(/Event$/, '').toLowerCase(), where
\* typeField is type.fields.find((f) => f.json === 'type')
eventTypeOf(typeName, ty) ==
    LET found == {i \in DOMAIN ty.fields : ty.fields[i].json = S_type}
        first == CHOOSE i \in found : \A j \in found : i <= j
    IN  IF found # {} /\ TruthyString(ty.fields[first].const)
        THEN ty.fields[first].const
        ELSE toLowerCase(withoutEventSuffix(typeName))

\* the example of a type or message as a fragment prints it
exampleText(ty, gap) ==
    IF Truthy(ty.example) THEN stringify(ty.example, gap) ELSE EmptyString

\* the references of a list that resolve in a table, in order
resolvedNames(refs, prefix, table) ==
    LET names == [i \in DOMAIN refs |-> replaceFirst(refs[i], prefix, EmptyString)]
        Resolves(typeName) == typeName \in DOMAIN table
    IN  SelectSeq(names, Resolves)

\* generateStreamingEventsDocs(streamTypes, types): '' without stream types;
\* type.fields.find throws for a resolved type without a field list
generateStreamingEventsDocs(streamTypes, tys) ==
    IF Len(streamTypes) = 0 THEN Returned(<<>>)
    ELSE LET names == resolvedNames(streamTypes, S_typesRefPrefix, tys)
         IN  IF \E i \in DOMAIN names : ~tys[names[i]].hasFields THEN TypeError
             ELSE Returned(
                    <<Heading(S_StreamingEvents)>>
                    \o [i \in DOMAIN names |->
                          TypeBlock(eventTypeOf(names[i], tys[names[i]]),
                                    [k \in DOMAIN tys[names[i]].fields |->
                                        fieldRow(tys[names[i]].fields[k])],
                                    exampleText(tys[names[i]], 0))])

\* the messages of one direction: a heading when the list has entries, and a
\* block for every message the table holds; msg.fields is tested before use
messageBlocks(heading, refs, table) ==
    IF Len(refs) = 0 THEN <<>>
    ELSE LET names == resolvedNames(refs, S_messagesRefPrefix, table)
         IN  <<Heading(heading)>>
             \o [i \in DOMAIN names |->
                   TypeBlock(names[i],
                             IF table[names[i]].hasFields
                             THEN [k \in DOMAIN table[names[i]].fields |->
                                     fieldRow(table[names[i]].fields[k])]
                             ELSE <<>>,
                             exampleText(table[names[i]], 2))]

\* generateWebSocketMessagesDocs(messages, websocketMessages, types)
generateWebSocketMessagesDocs(messages, table) ==
    IF ~messages.present THEN Returned(<<>>)
    ELSE Returned(messageBlocks(S_ClientToServer, messages.client_to_server, table)
                  \o messageBlocks(S_ServerToClient, messages.server_to_client, table))

\* the names of a table in the order Object.entries gives them
entryNames(table) == sortStrings(DOMAIN table)

\* the properties the types page lists for a type: type.fields.map(...)
typeProperties(ty) ==
    [k \in DOMAIN ty.fields |->
        PropertyDef(IF TruthyString(ty.fields[k].json) THEN ty.fields[k].json
                    ELSE ty.fields[k].name,
                    formatType(ty.fields[k].type), ~ty.fields[k].optional, FALSE, <<>>)]

\* generateTypesPage(types, enums, websocketMessages): type.fields.map and
\* msg.fields.map throw for an entry without a field list
generateTypesPage(tys, table) ==
    IF \/ \E name \in DOMAIN tys : ~tys[name].hasFields
       \/ \E name \in DOMAIN table : ~table[name].hasFields
    THEN TypeError
    ELSE Returned(
            [i \in DOMAIN entryNames(tys) |->
                LET name == entryNames(tys)[i]
                IN  [kind |-> "type", text |-> name, rows |-> typeProperties(tys[name]),
                     example |-> exampleText(tys[name], 2)]]
            \o [i \in DOMAIN entryNames(table) |->
                LET name == entryNames(table)[i]
                IN  [kind |-> "type", text |-> name, rows |-> typeProperties(table[name]),
                     example |-> exampleText(table[name], 2)]])

(***************************************************************************)
(* Specification of the section renderers                                  *)
(***************************************************************************)

S_ExitEvent == <<"E", "x", "i", "t", "E", "v", "e", "n", "t">>
S_Type == <<"T", "y", "p", "e">>

S_refExit == S_typesRefPrefix \o S_ExitEvent
S_msgA == S_messagesRefPrefix \o S_A
S_msgExit == S_messagesRefPrefix \o S_ExitEvent
S_msgC == S_messagesRefPrefix \o S_C

\* tables of types or messages: A has a 'type' field with a const and an
\* example; ExitEvent has a field list or none; C is in no table
FragmentTables ==
    {[name \in {S_A, S_ExitEvent} |->
        IF name = S_A
        THEN APIType(TRUE, <<ConstField(S_Type, S_type, S_string, S_a)>>,
                     ExampleObject(S_a))
        ELSE APIType(withFields, <<>>, Undefined)] :
        withFields \in BOOLEAN}

\* the stream types of an endpoint: none, resolving ones, one the table lacks
StreamTypeLists ==
    {<<>>, <<S_refA>>, <<S_refExit>>, <<S_refC>>, <<S_refA, S_refC>>}

\* the messages of an endpoint: none, in one direction, in both
MessageLists ==
    {NoMessages,
     WebSocketMessages(TRUE, <<S_msgA>>, <<>>),
     WebSocketMessages(TRUE, <<S_msgC>>, <<S_msgExit, S_msgA>>)}

\* the endpoints: with a responses list (empty or not) or none, with an
\* example or none, streaming or not, with messages or not
FragmentEndpoints ==
    {[APIEndpoint(S_execWebSocket, S_execPath, S_WSS, S_exec, NoDescriptor,
                  NoDescriptor, rs[2], ex)
        EXCEPT !.hasResponses = rs[1],
               !.stream_response = streamTypes # <<>>,
               !.stream_message_types = streamTypes,
               !.messages = messages] :
        rs \in {<<TRUE, <<>> >>, <<FALSE, <<>> >>,
                <<TRUE, <<APIResponse(200, TRUE, S_refA),
                          APIResponse(404, FALSE, EmptyString)>> >>},
        ex \in {Undefined, ExampleObject(S_e)},
        streamTypes \in StreamTypeLists,
        messages \in MessageLists}

InitFragments ==
    /\ step = "input"
    /\ FormatIdle
    /\ PropertyIdle
    /\ types \in FragmentTables
    /\ endpoint \in FragmentEndpoints
    /\ sdk = NoExamples
    /\ RenderIdle
    /\ VersionIdle
    /\ websocketMessages \in FragmentTables
    /\ fragment = <<>>
    /\ RunIdle
    /\ CliIdle
    /\ MoreIdle

\* const responseCode = generateResponseCode(endpoint, types)
RenderResponseCode ==
    /\ step = "input"
    /\ fragment' = generateResponseCodeOutcome(endpoint, types)
    /\ step' = "generateResponseCode"
    /\ UNCHANGED <<formatVars, types, propertyVars, endpoint, sdk, renderVars,
                   versionVars, websocketMessages, runVars, cliVars,
                   moreVars>>

\* const responseStatusCodes = generateResponseStatusCodes(endpoint.responses)
RenderResponseStatusCodes ==
    /\ step = "input"
    /\ fragment' = generateResponseStatusCodes(endpoint.hasResponses,
                                               endpoint.responses)
    /\ step' = "generateResponseStatusCodes"
    /\ UNCHANGED <<formatVars, types, propertyVars, endpoint, sdk, renderVars,
                   versionVars, websocketMessages, runVars, cliVars,
                   moreVars>>

\* const streamingEventsDocs = endpoint.stream_response &&
\* endpoint.stream_message_types ? generateStreamingEventsDocs(...) : ''
RenderStreamingEventsDocs ==
    /\ step = "input"
    /\ fragment' = IF endpoint.stream_response
                   THEN generateStreamingEventsDocs(endpoint.stream_message_types,
                                                    types)
                   ELSE Returned(<<>>)
    /\ step' = "generateStreamingEventsDocs"
    /\ UNCHANGED <<formatVars, types, propertyVars, endpoint, sdk, renderVars,
                   versionVars, websocketMessages, runVars, cliVars,
                   moreVars>>

\* const websocketDocs = endpoint.messages ?
\* generateWebSocketMessagesDocs(endpoint.messages, websocketMessages, types) : ''
RenderWebSocketMessagesDocs ==
    /\ step = "input"
    /\ fragment' = generateWebSocketMessagesDocs(endpoint.messages, websocketMessages)
    /\ step' = "generateWebSocketMessagesDocs"
    /\ UNCHANGED <<formatVars, types, propertyVars, endpoint, sdk, renderVars,
                   versionVars, websocketMessages, runVars, cliVars,
                   moreVars>>

\* generateTypesPage(schema.types, schema.enums, schema.websocket_messages), for
\* a schema without enums
RenderTypesPage ==
    /\ step = "input"
    /\ fragment' = generateTypesPage(types, websocketMessages)
    /\ step' = "generateTypesPage"
    /\ UNCHANGED <<formatVars, types, propertyVars, endpoint, sdk, renderVars,
                   versionVars, websocketMessages, runVars, cliVars,
                   moreVars>>

NextFragments ==
    \/ RenderResponseCode
    \/ RenderResponseStatusCodes
    \/ RenderStreamingEventsDocs
    \/ RenderWebSocketMessagesDocs
    \/ RenderTypesPage

SpecFragments == InitFragments /\ [][NextFragments]_vars

\* C13: every renderer returns a fragment, possibly empty, for every endpoint
\* and every pair of tables: none of them throws
RenderersAreTotal ==
    step # "input" => ~fragment.threw


(***************************************************************************)
(* The generation run (main): versions, fetches and the output tree        *)
(***************************************************************************)

S_rc30Url ==
    <<"h", "t", "t", "p", "s", ":", "/", "/", "s", "p", "r", "i", "t", "e", "s",
      "-", "b", "i", "n", "a", "r", "i", "e", "s", ".", "t", "3", ".", "s", "t",
      "o", "r", "a", "g", "e", ".", "d", "e", "v", "/", "a", "p", "i", "/", "v",
      "0", ".", "0", ".", "1", "-", "r", "c", "3", "0">>
S_devLatestUrl ==
    <<"h", "t", "t", "p", "s", ":", "/", "/", "s", "p", "r", "i", "t", "e", "s",
      "-", "b", "i", "n", "a", "r", "i", "e", "s", ".", "t", "3", ".", "s", "t",
      "o", "r", "a", "g", "e", ".", "d", "e", "v", "/", "a", "p", "i", "/", "d",
      "e", "v", "-", "l", "a", "t", "e", "s", "t">>
S_manualDir == <<"_", "m", "a", "n", "u", "a", "l">>
S_mdx == <<".", "m", "d", "x">>
S_indexMdx == <<"i", "n", "d", "e", "x", ".", "m", "d", "x">>
S_typesMdx == <<"t", "y", "p", "e", "s", ".", "m", "d", "x">>
S_sidebarConfigTs ==
    <<"_", "s", "i", "d", "e", "b", "a", "r", "-", "c", "o", "n", "f", "i", "g",
      ".", "t", "s">>
S_apiSchemaJson ==
    <<"/", "a", "p", "i", "_", "s", "c", "h", "e", "m", "a", ".", "j", "s", "o",
      "n">>
S_goExamplesJson ==
    <<"/", "g", "o", "-", "e", "x", "a", "m", "p", "l", "e", "s", ".", "j", "s",
      "o", "n">>
S_jsExamplesJson ==
    <<"/", "j", "s", "-", "e", "x", "a", "m", "p", "l", "e", "s", ".", "j", "s",
      "o", "n">>
S_pythonExamplesJson ==
    <<"/", "p", "y", "t", "h", "o", "n", "-", "e", "x", "a", "m", "p", "l", "e",
      "s", ".", "j", "s", "o", "n">>
S_elixirExamplesJson ==
    <<"/", "e", "l", "i", "x", "i", "r", "-", "e", "x", "a", "m", "p", "l", "e",
      "s", ".", "j", "s", "o", "n">>
S_failedToFetch ==
    <<"F", "a", "i", "l", "e", "d", " ", "t", "o", " ", "f", "e", "t", "c", "h",
      " ">>
S_colonSpace == <<":", " ">>
S_notFound == <<"N", "o", "t", " ", "F", "o", "u", "n", "d">>
S_fetchFailed == <<"f", "e", "t", "c", "h", " ", "f", "a", "i", "l", "e", "d">>
S_staleMdx == <<"s", "t", "a", "l", "e", ".", "m", "d", "x">>
S_handWritten == <<"h", "a", "n", "d", "-", "w", "r", "i", "t", "t", "e", "n">>

\* the configured versions, in order
API_VERSIONS ==
    << [id |-> S_rc30, schemaUrl |-> S_rc30Url, isLatest |-> TRUE],
       [id |-> S_devLatest, schemaUrl |-> S_devLatestUrl, isLatest |-> FALSE] >>

\* API_VERSIONS.find((v) => v.isLatest) || API_VERSIONS[0]
DEFAULT_VERSION ==
    LET latest == {i \in DOMAIN API_VERSIONS : API_VERSIONS[i].isLatest}
    IN  IF latest # {} THEN API_VERSIONS[CHOOSE i \in latest : \A j \in latest : i <= j]
        ELSE API_VERSIONS[1]

\* the directory of the manual pages, relative to OUTPUT_BASE_DIR
MANUAL_PAGES_DIR == <<S_manualDir>>

\* the five documents fetchAllData fetches below the base URL, in the order of
\* the Promise.all list
FetchedDocuments ==
    <<S_apiSchemaJson, S_goExamplesJson, S_jsExamplesJson, S_pythonExamplesJson,
      S_elixirExamplesJson>>

\* `${baseUrl}/api_schema.json` and the like
fetchUrl(baseUrl, document) == baseUrl \o document

\* an error: its class and message
ErrorOf(name, message) == [name |-> name, message |-> message]

\* an error whose message leaves out the URL
fetchErrorWithoutUrl(url, failure) ==
    IF failure = "status"
    THEN ErrorOf("Error", S_failedToFetch \o S_colonSpace \o S_notFound)
    ELSE ErrorOf("TypeError", S_fetchFailed)

\* what fetchJSON(url) rejects with: its own Error for a response that is not
\* ok, the rejection of fetch itself when the network fails
fetchError(url, failure) ==
    IF failure = "status"
    THEN ErrorOf("Error", S_failedToFetch \o url \o S_colonSpace \o S_notFound)
    ELSE ErrorOf("TypeError", S_fetchFailed)

\* the rejection of a file-system call
FileSystemError == ErrorOf("SystemError", <<>>)

\* the content of a file: what kind of document it is and its body
Content(kind, body) == [kind |-> kind, body |-> body]

\* the entries readdir(OUTPUT_BASE_DIR) lists
readdir(ds, fs) == {p[1] : p \in {q \in ds \cup DOMAIN fs : q # <<>>}}

\* the path lies in the entry of that name
Under(path, entry) == path # <<>> /\ path[1] = entry

\* the entries every step of the clean removes: all but _manual, which it
\* removes too
cleanTargetsAll(listed) == listed

\* the entries the clean removes: entry !== '_manual'
cleanTargets(listed) == listed \ {S_manualDir}

\* rm(join(OUTPUT_BASE_DIR, entry), { recursive: true, force: true })
rmDirs(ds, entry) == {p \in ds : ~Under(p, entry)}
rmFiles(fs, entry) == [p \in {q \in DOMAIN fs : ~Under(q, entry)} |-> fs[p]]

\* mkdir(path, { recursive: true }): the path and the directories above it
mkdir(ds, path) == ds \cup {SubSeq(path, 1, n) : n \in 0..Len(path)}

\* writeFile(path, content)
writeFile(fs, path, content) ==
    [p \in DOMAIN fs \cup {path} |-> IF p = path THEN content ELSE fs[p]]

\* fileExists(path)
fileExists(fs, path) == path \in DOMAIN fs

\* the files of the manual directory
manualFiles(fs) == [p \in {q \in DOMAIN fs : Under(q, S_manualDir)} |-> fs[p]]

\* join(outputDir, `${category}.mdx`)
categoryPath(id, category) == <<id, category \o S_mdx>>

\* what follows the copy of the manual pages of the last version or of any
\* version
afterCopyOfAny(index) == "redirect"

\* the for loop over API_VERSIONS: the next version, or the redirect page
\* after the last one
afterCopy(index) == IF index < Len(API_VERSIONS) THEN "fetch" ELSE "redirect"


(***************************************************************************)
(* Specification of the generation run                                     *)
(***************************************************************************)

\* the most failures of the network and the file system in one run
MaxFaults == 1

\* the endpoints the schema document holds: of the category of the manual
\* page, of another category, of none
RunEndpoints ==
    {APIEndpoint(S_ListSprites, S_spritePath, S_GET, S_sprites, NoDescriptor,
                 NoDescriptor, <<>>, Undefined),
     APIEndpoint(S_GetSprite, S_spritePath, S_GET, S_proxy, NoDescriptor,
                 NoDescriptor, <<>>, Undefined),
     APIEndpoint(S_CreateSprite, S_spritePath, S_POST, EmptyString, NoDescriptor,
                 NoDescriptor, <<>>, Undefined)}

\* a hand-written manual page
ManualContent == Content("manual", S_handWritten)

\* the output tree before the run: missing; holding the manual page only;
\* holding the manual page and the output of an earlier run; holding the
\* output of an earlier run only
InitialTrees ==
    {[dirs |-> {}, files |-> <<>>],
     [dirs |-> {<<>>, MANUAL_PAGES_DIR},
      files |-> (<<S_manualDir, S_sprites \o S_mdx>> :> ManualContent)],
     [dirs |-> {<<>>, MANUAL_PAGES_DIR, <<S_devLatest>>},
      files |-> (<<S_manualDir, S_sprites \o S_mdx>> :> ManualContent)
                @@ (<<S_devLatest, S_staleMdx>> :> Content("stale", <<>>))
                @@ (<<S_indexMdx>> :> Content("stale", <<>>))],
     [dirs |-> {<<>>, <<S_devLatest>>},
      files |-> (<<S_devLatest, S_staleMdx>> :> Content("stale", <<>>))]}

\* what the run reads and never writes
runInputs ==
    <<formatVars, types, propertyVars, endpoint, sdk, renderVars, schemaEndpoints,
      pages, sidebarItems, fragmentVars, manualAtStart, cliVars, moreVars>>

InitRun ==
    /\ step = "input"
    /\ FormatIdle
    /\ PropertyIdle
    /\ types = NoTypes
    /\ EndpointIdle
    /\ RenderIdle
    /\ schemaEndpoints \in SeqsUpTo(RunEndpoints, MaxEndpoints)
    /\ versionId = EmptyString
    /\ categories = <<>>
    /\ endpointsByCategory = <<>>
    /\ pages = <<>>
    /\ sidebarItems = <<>>
    /\ FragmentIdle
    /\ CliIdle
    /\ MoreIdle
    /\ pc = "readdir"
    /\ \E tree \in InitialTrees :
          /\ dirs = tree.dirs
          /\ files = tree.files
          /\ manualAtStart = manualFiles(tree.files)
    /\ dirEntries = {}
    /\ versionIndex = 1
    /\ requests = [i \in DOMAIN FetchedDocuments |-> "idle"]
    /\ categoryIndex = 0
    /\ faults = 0
    /\ error = <<>>
    /\ completed = <<>>
    /\ written = {}
    /\ cleanCaught = FALSE

\* const entries = await readdir(OUTPUT_BASE_DIR); without the directory the
\* call throws and the catch clause creates it
ReadDir ==
    /\ pc = "readdir"
    /\ IF <<>> \in dirs
       THEN /\ dirEntries' = readdir(dirs, files)
            /\ pc' = IF readdir(dirs, files) = {} THEN "fetch" ELSE "rm"
            /\ UNCHANGED <<dirs, written, cleanCaught>>
       ELSE /\ dirs' = mkdir(dirs, <<>>)
            /\ written' = written \cup {<<>>}
            /\ cleanCaught' = TRUE
            /\ pc' = "fetch"
            /\ UNCHANGED dirEntries
    /\ step' = "readdir"
    /\ UNCHANGED <<runInputs, versionId, categories, endpointsByCategory, files,
                   versionIndex, requests, categoryIndex, faults, error, completed>>

\* one round of the loop over entries: rm unless the entry is _manual
RemoveEntry ==
    /\ pc = "rm"
    /\ \E entry \in dirEntries :
          /\ IF entry \in cleanTargets(dirEntries)
             THEN /\ dirs' = rmDirs(dirs, entry)
                  /\ files' = rmFiles(files, entry)
             ELSE UNCHANGED <<dirs, files>>
          /\ dirEntries' = dirEntries \ {entry}
          /\ pc' = IF dirEntries = {entry} THEN "fetch" ELSE "rm"
    /\ step' = "rm"
    /\ UNCHANGED <<runInputs, versionId, categories, endpointsByCategory,
                   versionIndex, requests, categoryIndex, faults, error, completed,
                   written, cleanCaught>>

\* rm throws: the catch clause of the clean runs mkdir and the run goes on
RemoveFails ==
    /\ pc = "rm"
    /\ faults < MaxFaults
    /\ cleanTargets(dirEntries) # {}
    /\ faults' = faults + 1
    /\ dirs' = mkdir(dirs, <<>>)
    /\ cleanCaught' = TRUE
    /\ dirEntries' = {}
    /\ pc' = "fetch"
    /\ step' = "rm"
    /\ UNCHANGED <<runInputs, versionId, categories, endpointsByCategory, files,
                   versionIndex, requests, categoryIndex, error, completed, written>>

\* generateVersionDocs(version) calls fetchAllData(version.schemaUrl): the
\* five fetchJSON calls are made one after the other without an await between
\* them, and Promise.all waits for them
FetchAllData ==
    /\ pc = "fetch"
    /\ versionId' = API_VERSIONS[versionIndex].id
    /\ requests' = [i \in DOMAIN FetchedDocuments |-> "pending"]
    /\ categories' = <<>>
    /\ endpointsByCategory' = <<>>
    /\ pc' = "await"
    /\ step' = "fetchAllData"
    /\ UNCHANGED <<runInputs, dirs, files, dirEntries, versionIndex, categoryIndex,
                   faults, error, completed, written, cleanCaught>>

\* a response that is ok arrives and is parsed
FetchSucceeds ==
    /\ pc = "await"
    /\ \E i \in DOMAIN requests :
          /\ requests[i] = "pending"
          /\ requests' = [requests EXCEPT ![i] = "ok"]
    /\ step' = "fetchJSON"
    /\ UNCHANGED <<runInputs, versionId, categories, endpointsByCategory, dirs,
                   files, dirEntries, versionIndex, categoryIndex, faults, error,
                   completed, written, pc, cleanCaught>>

\* a fetch fails, by the network or by a response that is not ok: fetchJSON
\* rejects, so does Promise.all at once, generateVersionDocs and main with it,
\* and main().catch ends the process with exit code 1
FetchFails ==
    /\ pc = "await"
    /\ faults < MaxFaults
    /\ \E i \in DOMAIN requests, failure \in {"status", "network"} :
          /\ requests[i] = "pending"
          /\ requests' = [requests EXCEPT ![i] = failure]
          /\ error' = fetchError(fetchUrl(API_VERSIONS[versionIndex].schemaUrl,
                                          FetchedDocuments[i]), failure)
    /\ faults' = faults + 1
    /\ pc' = "exit1"
    /\ step' = "fetchJSON"
    /\ UNCHANGED <<runInputs, versionId, categories, endpointsByCategory, dirs,
                   files, dirEntries, versionIndex, categoryIndex, completed,
                   written, cleanCaught>>

\* Promise.all resolves when the five fetches have; generateVersionDocs groups
\* the endpoints by category and sorts the categories
GroupEndpoints ==
    /\ pc = "await"
    /\ \A i \in DOMAIN requests : requests[i] = "ok"
    /\ endpointsByCategory' = groupByCategory(schemaEndpoints)
    /\ categories' = sortedCategories(groupByCategory(schemaEndpoints))
    /\ pc' = "mkdir"
    /\ step' = "groupByCategory"
    /\ UNCHANGED <<runInputs, versionId, dirs, files, dirEntries, versionIndex,
                   requests, categoryIndex, faults, error, completed, written,
                   cleanCaught>>

\* await mkdir(outputDir, { recursive: true })
MakeOutputDir ==
    /\ pc = "mkdir"
    /\ dirs' = mkdir(dirs, <<versionId>>)
    /\ written' = written \cup {<<versionId>>}
    /\ pc' = "index"
    /\ step' = "mkdir"
    /\ UNCHANGED <<runInputs, versionId, categories, endpointsByCategory, files,
                   dirEntries, versionIndex, requests, categoryIndex, faults, error,
                   completed, cleanCaught>>

\* await writeFile(join(outputDir, 'index.mdx'), indexContent)
WriteIndexPage ==
    /\ pc = "index"
    /\ files' = writeFile(files, <<versionId, S_indexMdx>>,
                          Content("index", <<versionId, categories>>))
    /\ written' = written \cup {<<versionId, S_indexMdx>>}
    /\ categoryIndex' = 1
    /\ pc' = IF categories = <<>> THEN "types" ELSE "category"
    /\ step' = "generateIndexPage"
    /\ UNCHANGED <<runInputs, versionId, categories, endpointsByCategory, dirs,
                   dirEntries, versionIndex, requests, faults, error, completed,
                   cleanCaught>>

\* one round of the loop over categories: generateCategoryPage and writeFile
WriteCategoryPage ==
    /\ pc = "category"
    /\ LET category == categories[categoryIndex]
       IN  /\ files' = writeFile(
                          files, categoryPath(versionId, category),
                          Content("category",
                                  generateCategoryPage(category,
                                                       endpointsByCategory[category],
                                                       types, sdk)))
           /\ written' = written \cup {categoryPath(versionId, category)}
    /\ categoryIndex' = categoryIndex + 1
    /\ pc' = IF categoryIndex = Len(categories) THEN "types" ELSE "category"
    /\ step' = "generateCategoryPage"
    /\ UNCHANGED <<runInputs, versionId, categories, endpointsByCategory, dirs,
                   dirEntries, versionIndex, requests, faults, error, completed,
                   cleanCaught>>

\* await writeFile(join(outputDir, 'types.mdx'), typesContent)
WriteTypesPage ==
    /\ pc = "types"
    /\ files' = writeFile(files, <<versionId, S_typesMdx>>,
                          Content("types", generateTypesPage(types, NoTypes).value))
    /\ written' = written \cup {<<versionId, S_typesMdx>>}
    /\ pc' = "sidebar"
    /\ step' = "generateTypesPage"
    /\ UNCHANGED <<runInputs, versionId, categories, endpointsByCategory, dirs,
                   dirEntries, versionIndex, requests, categoryIndex, faults, error,
                   completed, cleanCaught>>

\* await writeFile(join(outputDir, '_sidebar-config.ts'), sidebarConfig);
\* generateVersionDocs returns
WriteSidebarConfig ==
    /\ pc = "sidebar"
    /\ files' = writeFile(files, <<versionId, S_sidebarConfigTs>>,
                          Content("sidebar",
                                  generateSidebarItems(categories, endpointsByCategory,
                                                       versionId)))
    /\ written' = written \cup {<<versionId, S_sidebarConfigTs>>}
    /\ pc' = "copy"
    /\ step' = "generateSidebarConfig"
    /\ UNCHANGED <<runInputs, versionId, categories, endpointsByCategory, dirs,
                   dirEntries, versionIndex, requests, categoryIndex, faults, error,
                   completed, cleanCaught>>

\* the manual pages whose source file exists, as <<source, destination>>
manualCopies(fs, id) ==
    LET Exists(page) == fileExists(fs, Append(MANUAL_PAGES_DIR, page.category \o S_mdx))
        found == SelectSeq(MANUAL_PAGES, Exists)
    IN  [i \in DOMAIN found |->
            <<Append(MANUAL_PAGES_DIR, found[i].category \o S_mdx),
              categoryPath(id, found[i].category)>>]

\* the files after the copies, made one after the other
RECURSIVE copyAll(_, _)
copyAll(fs, copies) ==
    IF copies = <<>> THEN fs
    ELSE copyAll(writeFile(fs, Head(copies)[2], fs[Head(copies)[1]]), Tail(copies))

\* await copyManualPagesToVersion(version.id), and the loop over API_VERSIONS
\* goes on
CopyManualPagesToVersion ==
    /\ pc = "copy"
    /\ LET copies == manualCopies(files, versionId)
       IN  /\ files' = copyAll(files, copies)
           /\ written' = written \cup {copies[i][2] : i \in DOMAIN copies}
    /\ completed' = Append(completed, versionId)
    /\ versionIndex' = versionIndex + 1
    /\ pc' = afterCopy(versionIndex)
    /\ step' = "copyManualPagesToVersion"
    /\ UNCHANGED <<runInputs, versionId, categories, endpointsByCategory, dirs,
                   dirEntries, requests, categoryIndex, faults, error, cleanCaught>>

\* await writeFile(join(OUTPUT_BASE_DIR, 'index.mdx'), redirectContent)
WriteRootRedirectPage ==
    /\ pc = "redirect"
    /\ files' = writeFile(files, <<S_indexMdx>>, Content("redirect", DEFAULT_VERSION.id))
    /\ written' = written \cup {<<S_indexMdx>>}
    /\ pc' = "done"
    /\ step' = "generateRootRedirectPage"
    /\ UNCHANGED <<runInputs, versionId, categories, endpointsByCategory, dirs,
                   dirEntries, versionIndex, requests, categoryIndex, faults, error,
                   completed, cleanCaught>>

\* a call of mkdir, writeFile or readFile rejects: generateVersionDocs,
\* copyManualPagesToVersion or main rejects with it and main().catch ends the
\* process with exit code 1
FileSystemFails ==
    /\ \/ pc \in {"mkdir", "index", "category", "types", "sidebar", "redirect"}
       \/ pc = "copy" /\ manualCopies(files, versionId) # <<>>
    /\ faults < MaxFaults
    /\ faults' = faults + 1
    /\ error' = FileSystemError
    /\ pc' = "exit1"
    /\ step' = "catch"
    /\ UNCHANGED <<runInputs, versionId, categories, endpointsByCategory, dirs,
                   files, dirEntries, versionIndex, requests, categoryIndex,
                   completed, written, cleanCaught>>

NextRun ==
    \/ ReadDir
    \/ RemoveEntry
    \/ RemoveFails
    \/ FetchAllData
    \/ FetchSucceeds
    \/ FetchFails
    \/ GroupEndpoints
    \/ MakeOutputDir
    \/ WriteIndexPage
    \/ WriteCategoryPage
    \/ WriteTypesPage
    \/ WriteSidebarConfig
    \/ CopyManualPagesToVersion
    \/ WriteRootRedirectPage
    \/ FileSystemFails

SpecRun == InitRun /\ [][NextRun]_vars


\* the URL of the i-th fetch of the version being generated
RequestUrl(i) == fetchUrl(API_VERSIONS[versionIndex].schemaUrl, FetchedDocuments[i])

\* the run ended because a fetch failed
EndedByFetch == pc = "exit1" /\ \E i \in DOMAIN requests : requests[i] \in {"status", "network"}

\* the five fetches of a version are issued together: either none of them has
\* been issued or all have
IssuedTogether ==
    \A i, j \in DOMAIN requests : (requests[i] = "idle") = (requests[j] = "idle")

\* the run has written nothing of the version it was generating
NothingOfTheVersionWritten ==
    \A p \in written : ~Under(p, API_VERSIONS[versionIndex].id)

\* C14 as stated: the five fetches are issued together; when one of them
\* fails, by the network or by a status that is not OK, the run of the
\* version fails with an error naming the URL of the failed fetch, and no
\* directory or file of the version has been written
FetchFailureNamesUrl ==
    /\ IssuedTogether
    /\ EndedByFetch =>
          /\ \E i \in DOMAIN requests :
                /\ requests[i] \in {"status", "network"}
                /\ includes(error.message, RequestUrl(i))
          /\ NothingOfTheVersionWritten

\* C14, amended: the five fetches are issued together; when one of them
\* fails the run of the version fails and no directory or file of the version
\* has been written; the error names the URL when the response was not OK, and
\* is the error of fetch itself, which names no URL, when the network failed
FetchFailureLeavesNothing ==
    /\ IssuedTogether
    /\ EndedByFetch =>
          /\ \A i \in DOMAIN requests :
                /\ requests[i] = "status" =>
                      /\ error.name = "Error"
                      /\ includes(error.message, RequestUrl(i))
                /\ requests[i] = "network" =>
                      /\ error.name = "TypeError"
                      /\ error.message = S_fetchFailed
          /\ NothingOfTheVersionWritten

\* the second version fails on a response that is not OK while other
\* responses have arrived: the first version is written, the second is not
SecondVersionFetchRejected ==
    /\ pc = "exit1"
    /\ versionIndex = 2
    /\ \E i, j \in DOMAIN requests : requests[i] = "status" /\ requests[j] = "ok"
    /\ <<S_rc30, S_indexMdx>> \in written
    /\ <<S_devLatest>> \notin written

\* the ids of the configured versions, in order
ConfiguredIds == [i \in DOMAIN API_VERSIONS |-> API_VERSIONS[i].id]

\* C15: when the generation of a version has failed, every other configured
\* version is generated all the same
OtherVersionsStillGenerated ==
    pc = "exit1" =>
        \A k \in DOMAIN API_VERSIONS :
            k # versionIndex => \E i \in DOMAIN completed : completed[i] = ConfiguredIds[k]

\* C16: the versions are completed one after the other in the order of the
\* configuration, the redirect page is written only when all of them are
\* completed, and a run that fails has not written it
RedirectAfterAllVersions ==
    /\ Len(completed) <= Len(ConfiguredIds)
    /\ \A i \in DOMAIN completed : completed[i] = ConfiguredIds[i]
    /\ pc \in {"await", "mkdir", "index", "category", "types", "sidebar", "copy"} =>
          /\ Len(completed) = versionIndex - 1
          /\ versionId = ConfiguredIds[versionIndex]
    /\ <<S_indexMdx>> \in written => completed = ConfiguredIds
    /\ pc = "done" => <<S_indexMdx>> \in written
    /\ pc = "exit1" => <<S_indexMdx>> \notin written

\* the run is done: both versions are completed and the redirect page leads
\* to the default version
RedirectWritten ==
    /\ pc = "done"
    /\ completed = <<S_rc30, S_devLatest>>
    /\ files[<<S_indexMdx>>].kind = "redirect"
    /\ files[<<S_indexMdx>>].body = S_rc30

\* the clean is over
CleanOver == pc \notin {"readdir", "rm"}

CategoryPagesKept ==
    \A k \in DOMAIN completed :
        /\ {<<completed[k], S_indexMdx>>, <<completed[k], S_typesMdx>>,
            <<completed[k], S_sidebarConfigTs>>} \subseteq DOMAIN files
        /\ \A c \in DOMAIN groupByCategory(schemaEndpoints) :
              /\ categoryPath(completed[k], c) \in DOMAIN files
              /\ files[categoryPath(completed[k], c)].kind = "category"
              /\ files[categoryPath(completed[k], c)].body =
                    generateCategoryPage(c, groupByCategory(schemaEndpoints)[c],
                                         types, sdk)


(***************************************************************************)
(* The CLI reference: mdx-generator.ts (generateCommandsMdx and            *)
(* extractManualSections) with the command registry of commands.ts.        *)
(***************************************************************************)

AUTO_GEN_START ==
    <<"{", "/", "*", " ", "A", "U", "T", "O", "-", "G", "E", "N", "E", "R", "A",
      "T", "E", "D", "-", "C", "O", "N", "T", "E", "N", "T", ":", "S", "T", "A",
      "R", "T", " ", "-", " ", "D", "o", " ", "n", "o", "t", " ", "e", "d", "i",
      "t", " ", "t", "h", "i", "s", " ", "s", "e", "c", "t", "i", "o", "n", " ",
      "*", "/", "}">>
AUTO_GEN_END ==
    <<"{", "/", "*", " ", "A", "U", "T", "O", "-", "G", "E", "N", "E", "R", "A",
      "T", "E", "D", "-", "C", "O", "N", "T", "E", "N", "T", ":", "E", "N", "D",
      " ", "*", "/", "}">>
S_frontmatter ==
    <<"-", "-", "-", "\n", "t", "i", "t", "l", "e", ":", " ", "C", "L", "I", " ",
      "C", "o", "m", "m", "a", "n", "d", "s", " ", "R", "e", "f", "e", "r", "e",
      "n", "c", "e", "\n", "d", "e", "s", "c", "r", "i", "p", "t", "i", "o", "n",
      ":", " ", "C", "o", "m", "p", "l", "e", "t", "e", " ", "r", "e", "f", "e",
      "r", "e", "n", "c", "e", " ", "f", "o", "r", " ", "a", "l", "l", " ", "S",
      "p", "r", "i", "t", "e", "s", " ", "C", "L", "I", " ", "c", "o", "m", "m",
      "a", "n", "d", "s", "\n", "-", "-", "-", "\n", "\n">>
S_importLine ==
    <<"i", "m", "p", "o", "r", "t", " ", "{", " ", "C", "a", "l", "l", "o", "u",
      "t", ",", " ", "L", "i", "n", "k", "C", "a", "r", "d", ",", " ", "C", "a",
      "r", "d", "G", "r", "i", "d", " ", "}", " ", "f", "r", "o", "m", " ", "'",
      "@", "/", "c", "o", "m", "p", "o", "n", "e", "n", "t", "s", "/", "r", "e",
      "a", "c", "t", "'", ";", "\n", "\n">>
S_introStart ==
    <<"C", "o", "m", "p", "l", "e", "t", "e", " ", "r", "e", "f", "e", "r", "e",
      "n", "c", "e", " ", "f", "o", "r", " ", "a", "l", "l", " ">>
S_sprite == <<"s", "p", "r", "i", "t", "e">>
S_introEnd ==
    <<" ", "C", "L", "I", " ", "c", "o", "m", "m", "a", "n", "d", "s", ".", "\n",
      "\n">>
S_globalOptionsHeading ==
    <<"#", "#", " ", "G", "l", "o", "b", "a", "l", " ", "O", "p", "t", "i", "o",
      "n", "s">>
S_globalOptionsIntro ==
    <<"T", "h", "e", "s", "e", " ", "o", "p", "t", "i", "o", "n", "s", " ", "w",
      "o", "r", "k", " ", "w", "i", "t", "h", " ", "a", "n", "y", " ", "c", "o",
      "m", "m", "a", "n", "d", ":">>
S_optionTableHead ==
    <<"|", " ", "O", "p", "t", "i", "o", "n", " ", "|", " ", "D", "e", "s", "c",
      "r", "i", "p", "t", "i", "o", "n", " ", "|">>
S_optionTableRule ==
    <<"|", "-", "-", "-", "-", "-", "-", "-", "-", "|", "-", "-", "-", "-", "-",
      "-", "-", "-", "-", "-", "-", "-", "-", "|">>
S_bashFence == <<"b", "a", "s", "h">>
S_aliasesLabel == <<"*", "*", "A", "l", "i", "a", "s", "e", "s", ":", "*", "*", " ">>
S_optionsLabel == <<"*", "*", "O", "p", "t", "i", "o", "n", "s", ":", "*", "*">>
S_examplesLabel == <<"*", "*", "E", "x", "a", "m", "p", "l", "e", "s", ":", "*", "*">>
S_spriteList == <<"s", "p", "r", "i", "t", "e", " ", "l", "i", "s", "t">>
S_spriteLs == <<"s", "p", "r", "i", "t", "e", " ", "l", "s">>
S_spriteExec == <<"s", "p", "r", "i", "t", "e", " ", "e", "x", "e", "c">>
S_spriteX == <<"s", "p", "r", "i", "t", "e", " ", "x">>
S_spriteCreate == <<"s", "p", "r", "i", "t", "e", " ", "c", "r", "e", "a", "t", "e">>
S_spriteUrl == <<"s", "p", "r", "i", "t", "e", " ", "u", "r", "l">>
S_spriteManagement ==
    <<"s", "p", "r", "i", "t", "e", "-", "m", "a", "n", "a", "g", "e", "m", "e",
      "n", "t">>
S_commandExecution ==
    <<"c", "o", "m", "m", "a", "n", "d", "-", "e", "x", "e", "c", "u", "t", "i",
      "o", "n">>
S_networking == <<"n", "e", "t", "w", "o", "r", "k", "i", "n", "g">>
S_authentication ==
    <<"a", "u", "t", "h", "e", "n", "t", "i", "c", "a", "t", "i", "o", "n">>
S_utility == <<"u", "t", "i", "l", "i", "t", "y">>
S_AuthenticationCommands ==
    <<"A", "u", "t", "h", "e", "n", "t", "i", "c", "a", "t", "i", "o", "n", " ",
      "C", "o", "m", "m", "a", "n", "d", "s">>
S_SpriteManagement ==
    <<"S", "p", "r", "i", "t", "e", " ", "M", "a", "n", "a", "g", "e", "m", "e",
      "n", "t">>
S_CommandExecution ==
    <<"C", "o", "m", "m", "a", "n", "d", " ", "E", "x", "e", "c", "u", "t", "i",
      "o", "n">>
S_Networking == <<"N", "e", "t", "w", "o", "r", "k", "i", "n", "g">>
S_UtilityCommands ==
    <<"U", "t", "i", "l", "i", "t", "y", " ", "C", "o", "m", "m", "a", "n", "d",
      "s">>
S_ExitCodes == <<"#", "#", " ", "E", "x", "i", "t", " ", "C", "o", "d", "e", "s">>
S_EnvironmentVariables ==
    <<"#", "#", " ", "E", "n", "v", "i", "r", "o", "n", "m", "e", "n", "t", " ",
      "V", "a", "r", "i", "a", "b", "l", "e", "s">>
S_ConfigurationFiles ==
    <<"#", "#", " ", "C", "o", "n", "f", "i", "g", "u", "r", "a", "t", "i", "o",
      "n", " ", "F", "i", "l", "e", "s">>
S_Examples == <<"#", "#", " ", "E", "x", "a", "m", "p", "l", "e", "s">>
S_RelatedDocumentation ==
    <<"#", "#", " ", "R", "e", "l", "a", "t", "e", "d", " ", "D", "o", "c", "u",
      "m", "e", "n", "t", "a", "t", "i", "o", "n">>
S_h2 == <<"#", "#", " ">>

NL == <<"\n">>

Fence == <<GraveAccent, GraveAccent, GraveAccent>>

\* a template literal `x` in back quotes
Quoted(s) == <<GraveAccent>> \o s \o <<GraveAccent>>

\* a ParsedOption; a flag or argument the help does not give is the empty string
ParsedOption(short, long, argument, description) ==
    [short |-> short, long |-> long, argument |-> argument, description |-> description]

\* a ParsedHelp
ParsedHelp(description, usage, options, notes, examples) ==
    [description |-> description, usage |-> usage, options |-> options,
     notes |-> notes, examples |-> examples]

\* a CommandDefinition, as far as the documents and the tests use it
CommandDefinition(name, aliases, category, testable) ==
    [name |-> name, aliases |-> aliases, category |-> category, testable |-> testable]

\* the registry: one command of each kind the generator tells apart
commands ==
    <<CommandDefinition(S_spriteCreate, <<>>, S_spriteManagement, FALSE),
      CommandDefinition(S_spriteList, <<S_spriteLs>>, S_spriteManagement, TRUE),
      CommandDefinition(S_spriteExec, <<S_spriteX>>, S_commandExecution, TRUE),
      CommandDefinition(S_spriteUrl, <<>>, S_networking, TRUE)>>

categoryOrder ==
    <<S_authentication, S_spriteManagement, S_commandExecution, S_checkpoints,
      S_networking, S_utility>>

categoryTitles ==
    (S_authentication :> S_AuthenticationCommands)
    @@ (S_spriteManagement :> S_SpriteManagement)
    @@ (S_commandExecution :> S_CommandExecution)
    @@ (S_checkpoints :> S_Checkpoints)
    @@ (S_networking :> S_Networking)
    @@ (S_utility :> S_UtilityCommands)

\* the regular expression class [a-zA-Z]
IsLetter(c) == c \in Range(UpperCaseLetters) \cup Range(LowerCaseLetters)

\* the regular expression class [a-zA-Z0-9-]
IsTagChar(c) == IsLetter(c) \/ c \in Range(Digits) \/ c = "-"

\* where [a-zA-Z0-9-]*> matched from j ends; 0 when it does not match
RECURSIVE tagEnd(_, _)
tagEnd(s, j) ==
    IF j > Len(s) THEN 0
    ELSE IF s[j] = ">" THEN j
    ELSE IF IsTagChar(s[j]) THEN tagEnd(s, j + 1)
    ELSE 0

\* s.replace(/<([a-zA-Z][a-zA-Z0-9-]*)>/g, '`<$1>`'), or the same for </name>
\* when closing, from index i on
RECURSIVE quoteTags(_, _, _)
quoteTags(s, i, closing) ==
    IF i > Len(s) THEN <<>>
    ELSE LET first == IF closing THEN i + 2 ELSE i + 1
             opens == /\ s[i] = "<"
                      /\ first <= Len(s)
                      /\ closing => s[i + 1] = "/"
                      /\ IsLetter(s[first])
             last == IF opens THEN tagEnd(s, first + 1) ELSE 0
         IN  IF last # 0
             THEN Quoted(SubSeq(s, i, last)) \o quoteTags(s, last + 1, closing)
             ELSE <<s[i]>> \o quoteTags(s, i + 1, closing)

escapeMdx(text) == quoteTags(quoteTags(text, 1, FALSE), 1, TRUE)

formatOptionForTable(opt) ==
    LET shortPart == IF TruthyString(opt.short) THEN <<Quoted(opt.short)>> ELSE <<>>
        longPart == IF TruthyString(opt.long) /\ opt.long # opt.short
                    THEN <<Quoted(opt.long)>> ELSE <<>>
        parts == shortPart \o longPart
        withArgument ==
            IF TruthyString(opt.argument) /\ parts # <<>>
            THEN [parts EXCEPT ![Len(parts)] = @ \o <<" ">> \o opt.argument]
            ELSE parts
    IN  join(withArgument, <<",", " ">>)

generateGlobalOptionsSection(options) ==
    IF Len(options) = 0 THEN EmptyString
    ELSE join(<<S_globalOptionsHeading, EmptyString, S_globalOptionsIntro, EmptyString,
                S_optionTableHead, S_optionTableRule>>
              \o [i \in DOMAIN options |->
                    <<"|", " ">> \o formatOptionForTable(options[i]) \o <<" ", "|", " ">>
                    \o escapeMdx(options[i].description) \o <<" ", "|">>],
              NL)

formatOptionInline(opt) ==
    LET flags == IF TruthyString(opt.short) /\ TruthyString(opt.long)
                    /\ opt.short # opt.long
                 THEN Quoted(opt.short \o <<",", " ">> \o opt.long)
                 ELSE Quoted(IF TruthyString(opt.long) THEN opt.long ELSE opt.short)
    IN  IF TruthyString(opt.argument)
        THEN SubSeq(flags, 1, Len(flags) - 1) \o <<" ">> \o opt.argument
             \o <<GraveAccent>>
        ELSE flags

\* helpOutputs.get(name) is undefined for a command without parsed help
hasHelp(outputs, name) == name \in DOMAIN outputs

generateCommandSection(cmd, outputs) ==
    LET given == hasHelp(outputs, cmd.name)
        help == outputs[cmd.name]
        heading == <<<<"#", "#", "#", " ">> \o Quoted(cmd.name), EmptyString>>
        description == IF given /\ TruthyString(help.description)
                       THEN <<escapeMdx(help.description), EmptyString>> ELSE <<>>
        usage == <<Fence \o S_bashFence,
                   IF given /\ TruthyString(help.usage) THEN help.usage ELSE cmd.name,
                   Fence, EmptyString>>
        aliases == IF Len(cmd.aliases) > 0
                   THEN <<S_aliasesLabel
                          \o join([i \in DOMAIN cmd.aliases |-> Quoted(cmd.aliases[i])],
                                  <<",", " ">>),
                          EmptyString>>
                   ELSE <<>>
        options == IF given /\ Len(help.options) > 0
                   THEN <<S_optionsLabel>>
                        \o [i \in DOMAIN help.options |->
                              <<"-", " ">> \o formatOptionInline(help.options[i])
                              \o <<" ", "-", " ">>
                              \o escapeMdx(help.options[i].description)]
                        \o <<EmptyString>>
                   ELSE <<>>
        notes == IF given /\ Len(help.notes) > 0
                 THEN [i \in DOMAIN help.notes |->
                         <<">", " ">> \o escapeMdx(help.notes[i])]
                      \o <<EmptyString>>
                 ELSE <<>>
        examples == IF given /\ Len(help.examples) > 0
                    THEN <<S_examplesLabel, Fence \o S_bashFence>> \o help.examples
                         \o <<Fence, EmptyString>>
                    ELSE <<>>
    IN  join(heading \o description \o usage \o aliases \o options \o notes \o examples,
             NL)

\* commands.filter((cmd) => cmd.category === category)
categoryCommands(category) == SelectSeq(commands, LAMBDA cmd : cmd.category = category)

generateCommandSections(outputs) ==
    LET sectionsOf(category) ==
            IF Len(categoryCommands(category)) = 0 THEN <<>>
            ELSE <<S_h2 \o categoryTitles[category], EmptyString>>
                 \o [i \in DOMAIN categoryCommands(category) |->
                       generateCommandSection(categoryCommands(category)[i], outputs)]
    IN  join(concat([c \in DOMAIN categoryOrder |-> sectionsOf(categoryOrder[c])]), NL)

\* the text generateCommandsMdx puts between the two markers
generatedBody(outputs, options) ==
    NL \o NL \o generateGlobalOptionsSection(options) \o NL \o NL
    \o generateCommandSections(outputs) \o NL \o NL

generateCommandsMdx(outputs, options, manual) ==
    S_frontmatter \o S_importLine \o S_introStart \o Quoted(S_sprite) \o S_introEnd
    \o AUTO_GEN_START \o generatedBody(outputs, options) \o AUTO_GEN_END
    \o NL \o NL \o manual

\* s.split('\n')
RECURSIVE splitLines(_)
splitLines(s) ==
    LET i == indexOf(s, NL)
    IN  IF i = 0 THEN <<s>>
        ELSE <<SubSeq(s, 1, i - 1)>> \o splitLines(slice(s, i))

manualSectionHeaders ==
    <<S_ExitCodes, S_EnvironmentVariables, S_ConfigurationFiles, S_Examples,
      S_RelatedDocumentation>>

\* line.startsWith(header) for some header of manualSectionHeaders
IsManualHeader(line) ==
    \E h \in DOMAIN manualSectionHeaders : startsWith(line, manualSectionHeaders[h])

\* one round of the loop of extractKnownManualSections over the lines; done
\* records that the loop was left by its break
knownSectionsLine(st, line) ==
    LET entered ==
            IF IsManualHeader(line)
            THEN [st EXCEPT !.inManualSection = TRUE,
                            !.result = IF TruthyString(st.currentSection)
                                       THEN @ \o st.currentSection \o NL ELSE @,
                            !.currentSection = line \o NL]
            ELSE st
    IN  IF st.done \/ ~entered.inManualSection THEN IF st.done THEN st ELSE entered
        ELSE IF startsWith(line, S_h2) /\ ~IsManualHeader(line)
        THEN [entered EXCEPT !.result = IF TruthyString(entered.currentSection)
                                        THEN @ \o entered.currentSection ELSE @,
                             !.done = TRUE]
        ELSE IF ~startsWith(line, splitLines(entered.currentSection)[1])
        THEN [entered EXCEPT !.currentSection = @ \o line \o NL]
        ELSE entered

RECURSIVE knownSectionsLoop(_, _)
knownSectionsLoop(st, lines) ==
    IF lines = <<>> THEN st
    ELSE knownSectionsLoop(knownSectionsLine(st, Head(lines)), Tail(lines))

extractKnownManualSections(content) ==
    LET st == knownSectionsLoop([result |-> EmptyString, inManualSection |-> FALSE,
                                 currentSection |-> EmptyString, done |-> FALSE],
                                splitLines(content))
    IN  trim(IF TruthyString(st.currentSection)
             THEN st.result \o st.currentSection ELSE st.result)

\* extractManualSections without the trim of its result
extractManualSectionsUntrimmed(existingContent) ==
    LET endIndex == indexOf(existingContent, AUTO_GEN_END)
    IN  IF endIndex = 0 THEN extractKnownManualSections(existingContent)
        ELSE slice(existingContent, endIndex - 1 + Len(AUTO_GEN_END))

extractManualSections(existingContent) ==
    LET endIndex == indexOf(existingContent, AUTO_GEN_END)
    IN  IF endIndex = 0 THEN extractKnownManualSections(existingContent)
        ELSE trim(slice(existingContent, endIndex - 1 + Len(AUTO_GEN_END)))


(***************************************************************************)
(* Specification SpecCommands: commands.mdx is generated with hand-written *)
(* sections, the sections are extracted from it, and they are inserted     *)
(* into a freshly generated document.                                      *)
(***************************************************************************)

S_exitCodesBody ==
    <<"|", " ", "0", " ", "|", " ", "S", "u", "c", "c", "e", "s", "s", " ", "|">>
S_notesSection == <<"#", "#", " ", "N", "o", "t", "e", "s", "\n", "m", "i", "n", "e">>
S_moreText == <<"m", "o", "r", "e">>
S_listDescription ==
    <<"L", "i", "s", "t", " ", "s", "p", "r", "i", "t", "e", "s", " ", "o", "f",
      " ", "<", "o", "r", "g", ">", " ", "<", "/", "o", "r", "g", ">">>
S_listUsage ==
    <<"s", "p", "r", "i", "t", "e", " ", "l", "i", "s", "t", " ", "[", "f", "l",
      "a", "g", "s", "]">>
S_dashO == <<"-", "o">>
S_dashDashOrg == <<"-", "-", "o", "r", "g">>
S_orgArgument == <<"<", "n", "a", "m", "e", ">">>
S_orgDescription ==
    <<"O", "r", "g", "a", "n", "i", "z", "a", "t", "i", "o", "n", " ", "<", "n",
      "a", "m", "e", ">">>
S_dashDashHelp == <<"-", "-", "h", "e", "l", "p">>
S_helpDescription == <<"S", "h", "o", "w", " ", "h", "e", "l", "p">>
S_listNote == <<"N", "e", "e", "d", "s", " ", "a", " ", "t", "o", "k", "e", "n">>
S_listExample ==
    <<"s", "p", "r", "i", "t", "e", " ", "l", "i", "s", "t", " ", "-", "o", " ",
      "a", "c", "m", "e">>
S_outdatedIntro ==
    <<"#", " ", "C", "L", "I", " ", "C", "o", "m", "m", "a", "n", "d", "s", "\n",
      "\n", "o", "l", "d", " ", "t", "e", "x", "t", "\n">>
S_otherSection == <<"#", "#", " ", "O", "t", "h", "e", "r", "\n", "r", "e", "s", "t">>

PlainManual == S_ExitCodes \o NL \o NL \o S_exitCodesBody

\* the hand-written contents given to the generator
ManualContents ==
    {EmptyString,
     PlainManual,
     S_notesSection,
     PlainManual \o NL,
     NL \o PlainManual,
     <<" ", " ">> \o S_notesSection,
     S_notesSection \o <<" ", "\t">>,
     <<" ", "\n">>,
     PlainManual \o NL \o AUTO_GEN_END \o NL \o S_moreText}

OrgOption == ParsedOption(S_dashO, S_dashDashOrg, S_orgArgument, S_orgDescription)

HelpOption == ParsedOption(EmptyString, S_dashDashHelp, EmptyString, S_helpDescription)

ListHelp ==
    ParsedHelp(S_listDescription, S_listUsage, <<OrgOption, HelpOption>>,
               <<S_listNote>>, <<S_listExample>>)

\* a help text that quotes the end marker in an example
MarkerHelp ==
    ParsedHelp(EmptyString, EmptyString, <<>>, <<>>, <<AUTO_GEN_END>>)

HelpOutputs ==
    {<<>>,
     S_spriteList :> ListHelp,
     (S_spriteList :> ListHelp) @@ (S_spriteUrl :> MarkerHelp),
     S_spriteExec :> ParsedHelp(EmptyString, EmptyString, <<HelpOption>>, <<>>, <<>>)}

GlobalOptions == {<<>>, <<HelpOption>>, <<OrgOption, HelpOption>>}

\* commands.mdx before the run: absent, or written before the markers existed
ExistingDocuments ==
    {EmptyString,
     S_outdatedIntro \o PlainManual \o NL \o S_otherSection,
     S_outdatedIntro \o S_otherSection}

InitCommands ==
    /\ step = "input"
    /\ FormatIdle
    /\ PropertyIdle
    /\ types = NoTypes
    /\ EndpointIdle
    /\ RenderIdle
    /\ VersionIdle
    /\ FragmentIdle
    /\ RunIdle
    /\ DriverIdle
    /\ MoreIdle
    /\ helpOutputs \in HelpOutputs
    /\ globalOptions \in GlobalOptions
    /\ manualSections \in ManualContents
    /\ mdxContent \in ExistingDocuments
    /\ extracted = EmptyString

commandsInputs ==
    <<formatVars, types, propertyVars, endpoint, sdk, renderVars, versionVars,
      fragmentVars, runVars, driverVars, moreVars, helpOutputs, globalOptions>>

\* const mdxContent = generateCommandsMdx(helpOutputs, globalOptions, manualSections)
GenerateCommandsMdx ==
    /\ step = "input"
    /\ mdxContent' = generateCommandsMdx(helpOutputs, globalOptions, manualSections)
    /\ step' = "generateCommandsMdx"
    /\ UNCHANGED <<commandsInputs, manualSections, extracted>>

\* const extracted = extractManualSections(existingContent), on the document
\* of before the markers, on the generated one and on the regenerated one
ExtractManualSections ==
    /\ step \in {"input", "generateCommandsMdx", "regenerated"}
    /\ extracted' = extractManualSections(mdxContent)
    /\ step' = CASE step = "input" -> "extractExisting"
                 [] step = "generateCommandsMdx" -> "extractManualSections"
                 [] OTHER -> "extractAgain"
    /\ UNCHANGED <<commandsInputs, manualSections, mdxContent>>

\* the next run inserts what it extracted into a freshly generated document
Regenerate ==
    /\ step = "extractManualSections"
    /\ mdxContent' = generateCommandsMdx(helpOutputs, globalOptions, extracted)
    /\ step' = "regenerated"
    /\ UNCHANGED <<commandsInputs, manualSections, extracted>>

NextCommands == GenerateCommandsMdx \/ ExtractManualSections \/ Regenerate

SpecCommands == InitCommands /\ [][NextCommands]_vars

\* the generated part of the document holds the end marker only at its end
MarkerOnlyAtEnd == ~includes(generatedBody(helpOutputs, globalOptions), AUTO_GEN_END)

\* the content has no white space at either end
IsTrimmed(s) == trim(s) = s

S_unknown == <<"u", "n", "k", "n", "o", "w", "n">>
S_version123 == <<"1", ".", "2", ".", "3">>
S_docsGenSprite == <<"d", "o", "c", "s", "-", "g", "e", "n", "-", "1">>
S_stderrText == <<"e", "x", "i", "t", " ", "s", "t", "a", "t", "u", "s", " ", "1">>
S_UnknownError == <<"U", "n", "k", "n", "o", "w", "n", " ", "e", "r", "r", "o", "r">>
S_FailedToCreateCheckpoint ==
    <<"F", "a", "i", "l", "e", "d", " ", "t", "o", " ", "c", "r", "e", "a", "t",
      "e", " ", "c", "h", "e", "c", "k", "p", "o", "i", "n", "t">>
S_checkpointCreate ==
    <<"s", "p", "r", "i", "t", "e", " ", "c", "h", "e", "c", "k", "p", "o", "i",
      "n", "t", " ", "c", "r", "e", "a", "t", "e">>
S_checkpointInfo ==
    <<"s", "p", "r", "i", "t", "e", " ", "c", "h", "e", "c", "k", "p", "o", "i",
      "n", "t", " ", "i", "n", "f", "o">>
S_urlUpdatePublic ==
    <<"s", "p", "r", "i", "t", "e", " ", "u", "r", "l", " ", "u", "p", "d", "a",
      "t", "e", " ", "-", "-", "a", "u", "t", "h", " ", "p", "u", "b", "l", "i",
      "c">>
S_urlUpdateDefault ==
    <<"s", "p", "r", "i", "t", "e", " ", "u", "r", "l", " ", "u", "p", "d", "a",
      "t", "e", " ", "-", "-", "a", "u", "t", "h", " ", "d", "e", "f", "a", "u",
      "l", "t">>
S_spriteRestore ==
    <<"s", "p", "r", "i", "t", "e", " ", "r", "e", "s", "t", "o", "r", "e">>
S_noHelpOutputFor ==
    <<"N", "o", " ", "h", "e", "l", "p", " ", "o", "u", "t", "p", "u", "t", " ",
      "f", "o", "r", " ">>
S_cliNotInstalled ==
    <<"E", "R", "R", "O", "R", ":", " ", "s", "p", "r", "i", "t", "e", " ", "C",
      "L", "I", " ", "i", "s", " ", "n", "o", "t", " ", "i", "n", "s", "t", "a",
      "l", "l", "e", "d">>
S_installWith ==
    <<"I", "n", "s", "t", "a", "l", "l", " ", "w", "i", "t", "h", ":", " ", "c",
      "u", "r", "l", " ", "-", "f", "s", "S", "L", " ", "h", "t", "t", "p", "s",
      ":", "/", "/", "s", "p", "r", "i", "t", "e", "s", ".", "d", "e", "v", "/",
      "i", "n", "s", "t", "a", "l", "l", ".", "s", "h", " ", "|", " ", "s", "h">>
S_authenticationFailed ==
    <<"E", "R", "R", "O", "R", ":", " ", "A", "u", "t", "h", "e", "n", "t", "i",
      "c", "a", "t", "i", "o", "n", " ", "f", "a", "i", "l", "e", "d">>
S_setTestToken ==
    <<"S", "e", "t", " ", "S", "P", "R", "I", "T", "E", "S", "_", "T", "E", "S",
      "T", "_", "T", "O", "K", "E", "N", " ", "e", "n", "v", "i", "r", "o", "n",
      "m", "e", "n", "t", " ", "v", "a", "r", "i", "a", "b", "l", "e">>
S_failedToCreateSprite ==
    <<"E", "R", "R", "O", "R", ":", " ", "F", "a", "i", "l", "e", "d", " ", "t",
      "o", " ", "c", "r", "e", "a", "t", "e", " ", "t", "e", "s", "t", " ", "s",
      "p", "r", "i", "t", "e", ":">>
S_generationFailed ==
    <<"G", "e", "n", "e", "r", "a", "t", "i", "o", "n", " ", "f", "a", "i", "l",
      "e", "d", ":">>
S_defaultManualStart ==
    <<"#", "#", " ", "E", "x", "i", "t", " ", "C", "o", "d", "e", "s", "\n", "\n",
      "|", " ", "C", "o", "d", "e", " ", "|", " ", "M", "e", "a", "n", "i", "n",
      "g", " ", "|", "\n", "|", "-", "-", "-", "-", "-", "-", "|", "-", "-", "-",
      "-", "-", "-", "-", "-", "-", "|", "\n", "|", " ", "0", " ", "|", " ", "S",
      "u", "c", "c", "e", "s", "s", " ", "|">>
S_EACCES ==
    <<"E", "A", "C", "C", "E", "S", ":", " ", "p", "e", "r", "m", "i", "s", "s",
      "i", "o", "n", " ", "d", "e", "n", "i", "e", "d">>

\* the report main starts with
NewReport ==
    [cliVersion |-> S_unknown, testsRun |-> 0, testsPassed |-> 0, testsFailed |-> 0,
     commandsGenerated |-> <<>>, errors |-> <<>>]

\* an entry of report.errors that loses its phase
ReportErrorAsTest(command, phase, message) ==
    [command |-> command, phase |-> "test", message |-> message]

\* an entry of report.errors
ReportError(command, phase, message) ==
    [command |-> command, phase |-> phase, message |-> message]

\* a TestResult; error is empty when undefined
TestResult(command, success, failure) ==
    [command |-> command, success |-> success, error |-> failure]

\* commands.filter((cmd) => !cmd.skipTest && cmd.testCase)
getTestableCommands == SelectSeq(commands, LAMBDA cmd : cmd.testable)

\* the results runTestCase(cmd) can give for a command with a test case
runTestCaseResults(cmd) ==
    {TestResult(cmd.name, TRUE, EmptyString),
     TestResult(cmd.name, FALSE, S_stderrText)}

\* a result of runDependentTests after the checkpoint was created: stderr of
\* a failed command can be empty
DependentResults(command) ==
    {TestResult(command, TRUE, EmptyString), TestResult(command, FALSE, S_stderrText)}

\* the result lists runDependentTests() can give
runDependentTestsResults ==
    {<<TestResult(S_checkpointCreate, FALSE, S_FailedToCreateCheckpoint)>>,
     <<TestResult(S_checkpointCreate, TRUE, EmptyString)>>,
     <<TestResult(S_checkpointCreate, TRUE, EmptyString),
       TestResult(S_checkpointInfo, FALSE, EmptyString),
       TestResult(S_urlUpdatePublic, TRUE, EmptyString),
       TestResult(S_urlUpdateDefault, TRUE, EmptyString),
       TestResult(S_spriteRestore, TRUE, EmptyString)>>}
    \cup {<<TestResult(S_checkpointCreate, TRUE, EmptyString), info,
            TestResult(S_urlUpdatePublic, TRUE, EmptyString),
            TestResult(S_urlUpdateDefault, TRUE, EmptyString), restore>> :
            info \in DependentResults(S_checkpointInfo),
            restore \in DependentResults(S_spriteRestore)}

\* a loop body that counts every test as passed, failed ones as failed too
recordTestAsPassed(rep, result) ==
    [rep EXCEPT
        !.testsRun = @ + 1,
        !.testsPassed = @ + 1,
        !.testsFailed = IF result.success THEN @ ELSE @ + 1,
        !.errors = IF result.success THEN @
                   ELSE Append(@, ReportError(result.command, "test", result.error))]

\* the body of the two loops over test results: the counters and the error
recordTest(rep, result) ==
    [rep EXCEPT
        !.testsRun = @ + 1,
        !.testsPassed = IF result.success THEN @ + 1 ELSE @,
        !.testsFailed = IF result.success THEN @ ELSE @ + 1,
        !.errors = IF result.success THEN @
                   ELSE Append(@, ReportError(result.command, "test",
                                              IF TruthyString(result.error)
                                              THEN result.error ELSE S_UnknownError))]

RECURSIVE recordTests(_, _)
recordTests(rep, results) ==
    IF results = <<>> THEN rep
    ELSE recordTests(recordTest(rep, Head(results)), Tail(results))

\* a driver that lets failed tests fail the run
exitCodeFailingOnTests(rep) == IF rep.testsFailed > 0 THEN 1 ELSE 0

\* what the end of the try block does about failed tests: a warning, and
\* the exit code of a run that ends by itself
exitCodeAtEnd(rep) == 0

\* the start of getDefaultManualSections()
getDefaultManualSections == S_defaultManualStart

\* the help the registry's commands give when their help can be read
helpOf(name) ==
    IF name = S_spriteList THEN ListHelp
    ELSE ParsedHelp(EmptyString, EmptyString, <<HelpOption>>, <<>>, <<>>)

\* a driver that ignores the skip-tests switch
afterVersionIgnoringSwitch(skip) == "verifyAuthentication"

\* where main goes after step 2: each of the three if (!config.skipTests)
\* is skipped when the switch is set, up to the gathering of the help
afterVersion(skip) == IF skip THEN "getMainHelp" ELSE "verifyAuthentication"

\* the text of a phase
phaseText(phase) == IF phase = "test" THEN <<"t", "e", "s", "t">> ELSE <<"h", "e", "l", "p">>

\* step 10: the lines console.log prints for report.errors
printedErrors(rep) ==
    [i \in DOMAIN rep.errors |->
        <<" ", " ", "-", " ">> \o rep.errors[i].command \o <<" ", "(">>
        \o phaseText(rep.errors[i].phase) \o <<")", ":", " ">> \o rep.errors[i].message]

\* a finally clause that leaves the test sprite behind
callsWithoutCleanup(sprite, made) == made

\* the finally clause: if (testSprite) await destroyTestSprite(testSprite)
callsAfterCleanup(sprite, made) ==
    IF TruthyString(sprite) THEN Append(made, "destroyTestSprite") ELSE made


(***************************************************************************)
(* Specification SpecDriver: one run of the CLI reference main().          *)
(***************************************************************************)

\* commands.mdx before the run: absent or empty, or generated by a run before
DriverDocuments ==
    {EmptyString,
     generateCommandsMdx(<<>>, <<>>, S_notesSection \o NL)}

InitDriver ==
    /\ step = "input"
    /\ FormatIdle
    /\ PropertyIdle
    /\ types = NoTypes
    /\ EndpointIdle
    /\ RenderIdle
    /\ VersionIdle
    /\ FragmentIdle
    /\ RunIdle
    /\ MoreIdle
    /\ helpOutputs = <<>>
    /\ globalOptions = <<>>
    /\ manualSections = EmptyString
    /\ mdxContent \in DriverDocuments
    /\ extracted = EmptyString
    /\ cliPc = "checkCliInstalled"
    /\ skipTests \in BOOLEAN
    /\ report = NewReport
    /\ testSprite = EmptyString
    /\ cmdIndex = 0
    /\ thrown = EmptyString
    /\ calls = <<>>
    /\ consoleError = <<>>
    /\ reportFile = <<>>
    /\ printedReport = <<>>
    /\ exitCode = -1

\* what the driver never writes
driverInputs ==
    <<formatVars, types, propertyVars, endpoint, sdk, renderVars, versionVars,
      fragmentVars, runVars, moreVars, skipTests>>

\* Step 1: process.exit(1) when the CLI is not installed
CheckCliInstalled ==
    /\ cliPc = "checkCliInstalled"
    /\ calls' = Append(calls, "checkCliInstalled")
    /\ \E cliInstalled \in BOOLEAN :
          IF cliInstalled
          THEN /\ cliPc' = "getCliVersion"
               /\ UNCHANGED <<consoleError, exitCode>>
          ELSE /\ consoleError' = <<S_cliNotInstalled, S_installWith>>
               /\ exitCode' = 1
               /\ cliPc' = "exited"
    /\ step' = "checkCliInstalled"
    /\ UNCHANGED <<driverInputs, commandsVars, report, testSprite, cmdIndex, thrown,
                   reportFile, printedReport>>

\* Step 2: report.cliVersion = await getCliVersion()
GetCliVersion ==
    /\ cliPc = "getCliVersion"
    /\ calls' = Append(calls, "getCliVersion")
    /\ \E version \in {S_unknown, S_version123} :
          report' = [report EXCEPT !.cliVersion = version]
    /\ cliPc' = afterVersion(skipTests)
    /\ step' = "getCliVersion"
    /\ UNCHANGED <<driverInputs, commandsVars, testSprite, cmdIndex, thrown,
                   consoleError, reportFile, printedReport, exitCode>>

\* Step 3: process.exit(1) when the authentication fails
VerifyAuthentication ==
    /\ cliPc = "verifyAuthentication"
    /\ calls' = Append(calls, "verifyAuthentication")
    /\ \E authenticated \in BOOLEAN :
          IF authenticated
          THEN /\ cliPc' = "cleanupOrphanedTestSprites"
               /\ UNCHANGED <<consoleError, exitCode>>
          ELSE /\ consoleError' = <<S_authenticationFailed, S_setTestToken>>
               /\ exitCode' = 1
               /\ cliPc' = "exited"
    /\ step' = "verifyAuthentication"
    /\ UNCHANGED <<driverInputs, commandsVars, report, testSprite, cmdIndex, thrown,
                   reportFile, printedReport>>

\* await cleanupOrphanedTestSprites()
CleanupOrphanedTestSprites ==
    /\ cliPc = "cleanupOrphanedTestSprites"
    /\ calls' = Append(calls, "cleanupOrphanedTestSprites")
    /\ cliPc' = "createTestSprite"
    /\ step' = "cleanupOrphanedTestSprites"
    /\ UNCHANGED <<driverInputs, commandsVars, report, testSprite, cmdIndex, thrown,
                   consoleError, reportFile, printedReport, exitCode>>

\* Step 4: testSprite = await createTestSprite(), process.exit(1) when it throws
CreateTestSprite ==
    /\ cliPc = "createTestSprite"
    /\ calls' = Append(calls, "createTestSprite")
    /\ \E created \in BOOLEAN :
          IF created
          THEN /\ testSprite' = S_docsGenSprite
               /\ cmdIndex' = 1
               /\ cliPc' = IF Len(getTestableCommands) = 0
                           THEN "runDependentTests" ELSE "runTestCase"
               /\ UNCHANGED <<consoleError, exitCode>>
          ELSE /\ consoleError' = <<S_failedToCreateSprite>>
               /\ exitCode' = 1
               /\ cliPc' = "exited"
               /\ UNCHANGED <<testSprite, cmdIndex>>
    /\ step' = "createTestSprite"
    /\ UNCHANGED <<driverInputs, commandsVars, report, thrown, reportFile, printedReport>>

\* Step 5, one round of the loop over the testable commands
RunTestCase ==
    /\ cliPc = "runTestCase"
    /\ calls' = Append(calls, "runTestCase")
    /\ \E result \in runTestCaseResults(getTestableCommands[cmdIndex]) :
          report' = recordTest(report, result)
    /\ cmdIndex' = cmdIndex + 1
    /\ cliPc' = IF cmdIndex = Len(getTestableCommands)
                THEN "runDependentTests" ELSE "runTestCase"
    /\ step' = "runTestCase"
    /\ UNCHANGED <<driverInputs, commandsVars, testSprite, thrown, consoleError,
                   reportFile, printedReport, exitCode>>

\* Step 5: await runDependentTests() and the loop over its results
RunDependentTests ==
    /\ cliPc = "runDependentTests"
    /\ calls' = Append(calls, "runDependentTests")
    /\ \E dependentResults \in runDependentTestsResults :
          report' = recordTests(report, dependentResults)
    /\ cliPc' = "getMainHelp"
    /\ step' = "runDependentTests"
    /\ UNCHANGED <<driverInputs, commandsVars, testSprite, cmdIndex, thrown,
                   consoleError, reportFile, printedReport, exitCode>>

\* Step 6: the global options of the main help
GetMainHelp ==
    /\ cliPc = "getMainHelp"
    /\ calls' = Append(calls, "getMainHelp")
    /\ helpOutputs' = <<>>
    /\ globalOptions' \in {<<>>, <<HelpOption>>}
    /\ cmdIndex' = 1
    /\ cliPc' = "getHelpOutput"
    /\ step' = "getMainHelp"
    /\ UNCHANGED <<driverInputs, manualSections, mdxContent, extracted, report,
                   testSprite, thrown, consoleError, reportFile, printedReport, exitCode>>

\* Step 6, one round of the loop over the commands: the help is stored, or
\* the error caught is pushed to report.errors
GetHelpOutput ==
    /\ cliPc = "getHelpOutput"
    /\ calls' = Append(calls, "getHelpOutput")
    /\ LET cmd == commands[cmdIndex]
       IN  \E hasOutput \in BOOLEAN :
              IF hasOutput
              THEN /\ helpOutputs' = helpOutputs @@ (cmd.name :> helpOf(cmd.name))
                   /\ report' = [report EXCEPT !.commandsGenerated = Append(@, cmd.name)]
              ELSE /\ report' = [report EXCEPT !.errors =
                                    Append(@, ReportError(cmd.name, "help",
                                                          S_noHelpOutputFor \o cmd.name))]
                   /\ UNCHANGED helpOutputs
    /\ cmdIndex' = cmdIndex + 1
    /\ cliPc' = IF cmdIndex = Len(commands) THEN "readManualSections" ELSE "getHelpOutput"
    /\ step' = "getHelpOutput"
    /\ UNCHANGED <<driverInputs, globalOptions, manualSections, mdxContent, extracted,
                   testSprite, thrown, consoleError, reportFile, printedReport, exitCode>>

\* Step 7: the default sections unless the existing document gives some
ReadManualSections ==
    /\ cliPc = "readManualSections"
    /\ extracted' = IF mdxContent # EmptyString
                    THEN extractManualSections(mdxContent) ELSE extracted
    /\ manualSections' = IF mdxContent # EmptyString /\ TruthyString(trim(extracted'))
                         THEN extracted' ELSE getDefaultManualSections
    /\ cliPc' = "writeDocument"
    /\ step' = "readManualSections"
    /\ UNCHANGED <<driverInputs, helpOutputs, globalOptions, mdxContent, report,
                   testSprite, cmdIndex, thrown, calls, consoleError, reportFile, printedReport,
                   exitCode>>

\* Steps 8 and 9: writeFileSync(config.outputPath, mdxContent)
WriteDocument ==
    /\ cliPc = "writeDocument"
    /\ mdxContent' = generateCommandsMdx(helpOutputs, globalOptions, manualSections)
    /\ cliPc' = "writeReport"
    /\ step' = "writeDocument"
    /\ UNCHANGED <<driverInputs, helpOutputs, globalOptions, manualSections, extracted,
                   report, testSprite, cmdIndex, thrown, calls, consoleError,
                   reportFile, printedReport, exitCode>>

\* Step 10: writeFileSync(reportPath, JSON.stringify(report, null, 2))
WriteReport ==
    /\ cliPc = "writeReport"
    /\ printedReport' = printedErrors(report)
    /\ reportFile' = report
    /\ cliPc' = "endOfTry"
    /\ step' = "writeReport"
    /\ UNCHANGED <<driverInputs, commandsVars, report, testSprite, cmdIndex, thrown,
                   calls, consoleError, exitCode>>

\* writeFileSync throws: the error leaves the try block
WriteFails ==
    /\ cliPc \in {"writeDocument", "writeReport"}
    /\ printedReport' = IF cliPc = "writeReport" THEN printedErrors(report)
                        ELSE printedReport
    /\ thrown' = S_EACCES
    /\ cliPc' = "finally"
    /\ step' = "writeFails"
    /\ UNCHANGED <<driverInputs, commandsVars, report, testSprite, cmdIndex, calls,
                   consoleError, reportFile, exitCode>>

\* the end of the try block: failed tests give a warning
EndOfTry ==
    /\ cliPc = "endOfTry"
    /\ IF exitCodeAtEnd(report) # 0
       THEN /\ exitCode' = exitCodeAtEnd(report)
            /\ cliPc' = "exited"
       ELSE /\ cliPc' = "finally"
            /\ UNCHANGED exitCode
    /\ step' = "endOfTry"
    /\ UNCHANGED <<driverInputs, commandsVars, report, testSprite, cmdIndex, thrown,
                   calls, consoleError, reportFile, printedReport>>

\* finally: await destroyTestSprite(testSprite) if there is one; then main
\* returns, or its promise rejects with the error thrown
Finally ==
    /\ cliPc = "finally"
    /\ calls' = callsAfterCleanup(testSprite, calls)
    /\ IF thrown = EmptyString
       THEN /\ exitCode' = 0
            /\ cliPc' = "exited"
       ELSE /\ cliPc' = "catch"
            /\ UNCHANGED exitCode
    /\ step' = "finally"
    /\ UNCHANGED <<driverInputs, commandsVars, report, testSprite, cmdIndex, thrown,
                   consoleError, reportFile, printedReport>>

\* main().catch: console.error('Generation failed:', error); process.exit(1)
Catch ==
    /\ cliPc = "catch"
    /\ consoleError' = <<S_generationFailed>>
    /\ exitCode' = 1
    /\ cliPc' = "exited"
    /\ step' = "catch"
    /\ UNCHANGED <<driverInputs, commandsVars, report, testSprite, cmdIndex, thrown,
                   calls, reportFile, printedReport>>

NextDriver ==
    \/ CheckCliInstalled
    \/ GetCliVersion
    \/ VerifyAuthentication
    \/ CleanupOrphanedTestSprites
    \/ CreateTestSprite
    \/ RunTestCase
    \/ RunDependentTests
    \/ GetMainHelp
    \/ GetHelpOutput
    \/ ReadManualSections
    \/ WriteDocument
    \/ WriteReport
    \/ WriteFails
    \/ EndOfTry
    \/ Finally
    \/ Catch

SpecDriver == InitDriver /\ [][NextDriver]_vars

\* the lines console.error prints before process.exit(1) for a setup failure
SetupFailures ==
    {<<S_cliNotInstalled, S_installWith>>, <<S_authenticationFailed, S_setTestToken>>,
     <<S_failedToCreateSprite>>}

\* the errors of the report for failed tests
TestErrors == SelectSeq(report.errors, LAMBDA e : e.phase = "test")

\* C20 as stated: the process exits non-zero only on a setup failure (CLI not
\* installed, authentication failure, test-sprite creation failure).
ExitOnlyOnSetupFailure == exitCode = 1 => consoleError \in SetupFailures

\* C20 amended: every failed command test, registry or dependent, has its
\* entry in the report and no failed test changes the exit code: a run that
\* passed the setup and threw nothing ends with exit code 0 whatever
\* testsFailed is; the process exits non-zero on a setup failure or when an
\* error leaves the try block (writing the document or the report failed).
TestFailuresNeverFailRun ==
    /\ exitCode \in {-1, 0, 1}
    /\ Len(TestErrors) = report.testsFailed
    /\ exitCode = 1 =>
          \/ consoleError \in SetupFailures /\ thrown = EmptyString
          \/ consoleError = <<S_generationFailed>> /\ thrown # EmptyString
    /\ cliPc = "exited" /\ thrown = EmptyString /\ consoleError = <<>> => exitCode = 0

\* C20 witness: a run with a failed registry test and a failed dependent
\* test wrote its report and ended with exit code 0
FailedTestsExitZero ==
    /\ cliPc = "exited"
    /\ exitCode = 0
    /\ report.testsFailed >= 2
    /\ reportFile = report
    /\ \E i \in DOMAIN report.errors :
          report.errors[i].phase = "test" /\ report.errors[i].command = S_spriteExec
    /\ \E i \in DOMAIN report.errors :
          report.errors[i].phase = "test" /\ report.errors[i].command = S_spriteRestore


(***************************************************************************)
(* Properties of the CLI reference driver.                                 *)
(***************************************************************************)

\* p occurs in s (s.includes(p) for a non-empty p)
Occurs(s, p) ==
    \E i \in 1..(Len(s) - Len(p) + 1) :
        s[i] = p[1] /\ SubSeq(s, i, i + Len(p) - 1) = p

\* the heading of a command's section
CommandHeading(cmd) == <<"#", "#", "#", " ">> \o Quoted(cmd.name) \o NL

\* the commands whose help could not be read: they have an error of phase help
HelpFailed(cmd) ==
    \E i \in DOMAIN report.errors :
        report.errors[i].phase = "help" /\ report.errors[i].command = cmd.name

DocumentWritten == step \in {"writeDocument", "writeReport", "endOfTry"}

\* C21 as stated: a command whose help could not be obtained is left out of
\* the generated reference.
FailedHelpLeftOut ==
    DocumentWritten =>
        \A c \in DOMAIN commands :
            HelpFailed(commands[c]) => ~Occurs(mdxContent, CommandHeading(commands[c]))

\* C21 amended: a command whose help could not be obtained has one error of
\* phase help recorded, is absent from report.commandsGenerated and from
\* helpOutputs, and still has a section in the reference: its heading, its
\* name as usage and its aliases; every other command of the registry is
\* documented from its parsed help.
FailedHelpGetsFallbackSection ==
    DocumentWritten =>
        \A c \in DOMAIN commands :
            LET cmd == commands[c]
            IN  /\ HelpFailed(cmd) <=> ~hasHelp(helpOutputs, cmd.name)
                /\ HelpFailed(cmd) <=>
                      ~\E g \in DOMAIN report.commandsGenerated :
                            report.commandsGenerated[g] = cmd.name
                /\ HelpFailed(cmd) =>
                      /\ Occurs(mdxContent, generateCommandSection(cmd, <<>>))
                      /\ \E i \in DOMAIN report.errors :
                            report.errors[i] =
                                ReportError(cmd.name, "help", S_noHelpOutputFor \o cmd.name)
                /\ ~HelpFailed(cmd) =>
                      Occurs(mdxContent,
                             generateCommandSection(cmd, cmd.name :> helpOf(cmd.name)))

\* C21 witness: the document was written after the help of sprite list
\* failed and the help of sprite exec was parsed
OneHelpFailed ==
    /\ step = "writeDocument"
    /\ HelpFailed(commands[2])
    /\ ~HelpFailed(commands[3])
    /\ Occurs(mdxContent, CommandHeading(commands[2]))

\* the number of calls of a function of cli-runner.ts so far
Called(name) == Len(SelectSeq(calls, LAMBDA c : c = name))

\* what only a run with tests calls
TestSetupCalls ==
    {"verifyAuthentication", "cleanupOrphanedTestSprites", "createTestSprite",
     "destroyTestSprite", "runTestCase", "runDependentTests"}

\* C22: with the skip-tests switch set the driver checks no authentication,
\* cleans no orphans, creates and destroys no test sprite and runs no test
\* (testsRun stays 0); a run that ends normally has gathered the main help
\* and the help of every command and has written the reference document.
SkipTestsBypassesSetup ==
    skipTests =>
        /\ \A name \in TestSetupCalls : Called(name) = 0
        /\ testSprite = EmptyString
        /\ report.testsRun = 0 /\ report.testsPassed = 0 /\ report.testsFailed = 0
        /\ cliPc = "exited" /\ exitCode = 0 =>
              /\ Called("getMainHelp") = 1
              /\ Called("getHelpOutput") = Len(commands)
              /\ mdxContent = generateCommandsMdx(helpOutputs, globalOptions,
                                                  manualSections)
              /\ reportFile = report

\* C22 witness: a run with the switch set ended normally with its document
SkippedTestsRunEnded ==
    /\ skipTests
    /\ cliPc = "exited"
    /\ exitCode = 0
    /\ Called("getHelpOutput") = Len(commands)
    /\ Occurs(mdxContent, AUTO_GEN_END)
    /\ DOMAIN helpOutputs # {}

\* C23: a run that met degraded errors has, when it ends, printed every one
\* of them with its command, phase and message and written them to the
\* report file.
ReportAlwaysProduced ==
    cliPc = "exited" /\ report.errors # <<>> =>
        /\ printedReport = printedErrors(report)
        /\ reportFile = report

\* C26: once createTestSprite has succeeded, destroyTestSprite is called
\* exactly once before the run ends, as the last call of the run, whether the
\* steps of the try block completed or threw; without a test sprite it is
\* never called.
SpriteDestroyedExactlyOnce ==
    /\ testSprite = EmptyString => Called("destroyTestSprite") = 0
    /\ testSprite # EmptyString =>
          /\ Called("createTestSprite") = 1
          /\ Called("destroyTestSprite") =
                IF cliPc \in {"exited", "catch"} THEN 1 ELSE 0
          /\ cliPc \in {"exited", "catch"} => calls[Len(calls)] = "destroyTestSprite"

\* C26 witness: a run whose write threw after tests on a test sprite has
\* ended with the sprite destroyed
DestroyedAfterThrow ==
    /\ cliPc = "exited"
    /\ thrown # EmptyString
    /\ testSprite = S_docsGenSprite
    /\ report.testsRun > 0
    /\ Called("destroyTestSprite") = 1

\* the numbers of results runDependentTests can return
DependentCounts == {Len(results) : results \in runDependentTestsResults}

\* C27: at every point of a run between two awaits, testsRun is the sum of
\* testsPassed and testsFailed and testsFailed is the number of errors of
\* phase test; every registry test executed has added one to testsRun, hence
\* one to exactly one of the two other counters, and the dependent tests
\* have added one per result.
CountersConsistent ==
    /\ report.testsRun = report.testsPassed + report.testsFailed
    /\ Len(TestErrors) = report.testsFailed
    /\ IF Called("runDependentTests") = 0
       THEN report.testsRun = Called("runTestCase")
       ELSE report.testsRun - Called("runTestCase") \in DependentCounts

\* C27 witness: registry and dependent tests have run, some passed and some
\* failed
MixedTestResults ==
    /\ Called("runDependentTests") = 1
    /\ report.testsRun > Len(getTestableCommands) + 1
    /\ report.testsPassed >= 2
    /\ report.testsFailed >= 2


(***************************************************************************)
(* Specification SpecSidebar: generateSidebarItems on category lists in    *)
(* any order, with endpoint lists that are missing, empty or not.          *)
(***************************************************************************)

S_get == <<"g", "e", "t">>
S_wss == <<"w", "s", "s">>
S_post == <<"p", "o", "s", "t">>

\* the most categories of a list
MaxCategories == 2

SidebarCategories == {S_a, S_proxy, S_sprites}

\* the category lists: no category twice
SidebarCategoryLists ==
    {cats \in SeqsUpTo(SidebarCategories, MaxCategories) :
        \A i, j \in DOMAIN cats : i # j => cats[i] # cats[j]}

SidebarEndpoint(name, method, category) ==
    APIEndpoint(name, S_spritePath, method, category, NoDescriptor, NoDescriptor,
                <<>>, Undefined)

\* the endpoint lists of a category
SidebarEndpointLists(category) ==
    {<<>>,
     <<SidebarEndpoint(S_ListSprites, S_GET, category)>>,
     <<SidebarEndpoint(S_execWebSocket, S_WSS, category),
       SidebarEndpoint(S_ListSprites, S_POST, category)>>}

\* the maps from some of the categories to their endpoint lists
SidebarMaps(cats) ==
    UNION {[D -> UNION {SidebarEndpointLists(c) : c \in D}] : D \in SUBSET Range(cats)}

InitSidebar ==
    /\ step = "input"
    /\ FormatIdle
    /\ PropertyIdle
    /\ types = NoTypes
    /\ EndpointIdle
    /\ RenderIdle
    /\ schemaEndpoints = <<>>
    /\ versionId \in VersionIds
    /\ categories \in SidebarCategoryLists
    /\ endpointsByCategory \in
          {byCategory \in SidebarMaps(categories) :
              \A c \in DOMAIN byCategory :
                  \A i \in DOMAIN byCategory[c] : byCategory[c][i].category = c}
    /\ pages = <<>>
    /\ sidebarItems = <<>>
    /\ LaterIdle

\* const sidebarItems = generateSidebarItems(categories, endpointsByCategory, id)
GenerateSidebarItems ==
    /\ step = "input"
    /\ sidebarItems' = generateSidebarItems(categories, endpointsByCategory, versionId)
    /\ step' = "generateSidebarItems"
    /\ UNCHANGED <<formatVars, types, propertyVars, endpoint, sdk, renderVars,
                   schemaEndpoints, versionId, categories, endpointsByCategory, pages,
                   laterVars>>

NextSidebar == GenerateSidebarItems

SpecSidebar == InitSidebar /\ [][NextSidebar]_vars

\* the HTTP methods in lower case
LowercasedMethod(method) ==
    CASE method = S_GET -> S_get
      [] method = S_POST -> S_post
      [] method = S_WSS -> S_wss
      [] method = S_PUT -> <<"p", "u", "t">>
      [] method = S_DELETE -> <<"d", "e", "l", "e", "t", "e">>

\* the endpoints the sidebar is given for a category
SidebarEndpointsOf(category) ==
    IF category \in DOMAIN endpointsByCategory THEN endpointsByCategory[category]
    ELSE <<>>

\* an item is a collapsed group of one link per (label, method), in order
IsCollapsedGroupOf(item, labels, methods) ==
    /\ item.kind = "group"
    /\ item.collapsed
    /\ DOMAIN item.items = DOMAIN labels
    /\ \A i \in DOMAIN labels :
          /\ item.items[i].kind = "link"
          /\ item.items[i].label = labels[i]
          /\ item.items[i].dataMethod = LowercasedMethod(methods[i])

\* C24: generateSidebarItems returns the Overview entry first, one entry per
\* manual page, one entry per category in the order of the category list and
\* the Type Definitions entry last; a manual page or category with at least
\* one endpoint is a collapsed group with one link per endpoint in endpoint
\* order, each with the lowercased method, and otherwise a plain link.
SidebarShape ==
    step = "generateSidebarItems" =>
        /\ Len(sidebarItems) = 2 + Len(MANUAL_PAGES) + Len(categories)
        /\ sidebarItems[1] = SlugItem(S_Overview, S_apiSlash \o versionId)
        /\ sidebarItems[Len(sidebarItems)] =
              SlugItem(S_TypeDefinitions, S_apiSlash \o versionId \o S_typesPage)
        /\ \A p \in DOMAIN MANUAL_PAGES :
              LET page == MANUAL_PAGES[p]
                  item == sidebarItems[1 + p]
              IN  /\ item.label = page.title
                  /\ Len(page.endpoints) > 0
                  /\ IsCollapsedGroupOf(item,
                        [i \in DOMAIN page.endpoints |-> page.endpoints[i].title],
                        [i \in DOMAIN page.endpoints |-> page.endpoints[i].method])
        /\ \A k \in DOMAIN categories :
              LET eps == SidebarEndpointsOf(categories[k])
                  item == CategoryItem(k)
              IN  /\ item.label = getCategoryTitle(categories[k])
                  /\ IF Len(eps) > 0
                     THEN IsCollapsedGroupOf(item,
                              [i \in DOMAIN eps |-> eps[i].name],
                              [i \in DOMAIN eps |-> eps[i].method])
                     ELSE /\ item.kind = "slug"
                          /\ ~item.collapsed
                          /\ item.items = <<>>
                          /\ item.target =
                                S_apiSlash \o versionId \o S_slash \o categories[k]

\* C24 witness: a list of two categories not in sorted order, the first with
\* two endpoints and the second with none
GroupBesidePlainLink ==
    /\ step = "generateSidebarItems"
    /\ categories = <<S_proxy, S_a>>
    /\ Len(SidebarEndpointsOf(S_proxy)) = 2
    /\ SidebarEndpointsOf(S_a) = <<>>
    /\ CategoryItem(1).kind = "group"
    /\ CategoryItem(2).kind = "slug"


(***************************************************************************)
(* lib/api-versions.ts: rewriteApiUrl and transformSidebarForVersion       *)
(***************************************************************************)

S_rc30Slug == <<"v", "0", "0", "1", "-", "r", "c", "3", "0">>
S_api == <<"/", "a", "p", "i">>
S_docsPrefix == <<"/", "d", "o", "c", "s", "/">>
S_execPage == <<"/", "e", "x", "e", "c">>
S_execSubPage == <<"/", "e", "x", "e", "c", "/", "s", "u", "b">>
S_execPageSlash == <<"/", "e", "x", "e", "c", "/">>
S_runHash == <<"#", "r", "u", "n">>
S_slashHash == <<"#", "a", "/", "b">>
S_quickstart == <<"/", "q", "u", "i", "c", "k", "s", "t", "a", "r", "t">>

\* versionId.replace(/\./g, '')
versionToSlug(id) == replaceAllChar(id, ".", <<>>)

\* the length of the longest match of [^/]* at the start of s
RECURSIVE segmentLength(_)
segmentLength(s) ==
    IF s # <<>> /\ Head(s) # "/" THEN 1 + segmentLength(Tail(s)) ELSE 0

\* the characters the regular expression . does not match
LineTerminators == {"\n", "\r"}

\* url.match(/^\/api\/[^/]+\/?(.*)$/): whether it matches, and its group 1
matchApiUrl(u) ==
    LET afterPrefix == slice(u, Len(S_slashApiSlash))
        afterVersion1 == slice(afterPrefix, segmentLength(afterPrefix))
        rest == IF afterVersion1 # <<>> /\ Head(afterVersion1) = "/"
                THEN Tail(afterVersion1) ELSE afterVersion1
    IN  IF /\ startsWith(u, S_slashApiSlash)
           /\ segmentLength(afterPrefix) >= 1
           /\ Range(rest) \cap LineTerminators = {}
        THEN [matched |-> TRUE, pageAndHash |-> rest]
        ELSE [matched |-> FALSE, pageAndHash |-> EmptyString]

rewriteApiUrl(u, target) ==
    LET match == matchApiUrl(u)
        targetSlug == versionToSlug(target)
    IN  IF ~match.matched THEN u
        ELSE IF ~TruthyString(match.pageAndHash)
        THEN S_slashApiSlash \o targetSlug \o S_slash
        ELSE S_slashApiSlash \o targetSlug \o S_slash \o match.pageAndHash

\* a SidebarLink and a SidebarGroup
SidebarLink(label, href) ==
    [type |-> "link", label |-> label, href |-> href, isCurrent |-> FALSE]

SidebarGroup(label, entries, collapsed) ==
    [type |-> "group", label |-> label, entries |-> entries, collapsed |-> collapsed]

RECURSIVE transformSidebarForVersion(_, _)
transformSidebarForVersion(entries, target) ==
    [i \in DOMAIN entries |->
        LET entry == entries[i]
        IN  IF entry.type = "link"
            THEN IF startsWith(entry.href, S_slashApiSlash)
                 THEN [entry EXCEPT !.href = rewriteApiUrl(entry.href, target)]
                 ELSE entry
            ELSE [entry EXCEPT !.entries = transformSidebarForVersion(@, target)]]

(***************************************************************************)
(* Specification SpecRewrite                                               *)
(***************************************************************************)

\* URLs under /api/ with and without a version, a page, a trailing slash
\* and a hash, and URLs elsewhere
RewriteUrls ==
    {prefix \o version \o page \o hash :
        prefix \in {S_slashApiSlash, S_docsPrefix, S_api},
        version \in {EmptyString, S_rc30Slug, S_devLatest},
        page \in {EmptyString, S_slash, S_execPage, S_execSubPage, S_execPageSlash},
        hash \in {EmptyString, S_runHash, S_slashHash}}

RewriteSidebars ==
    {<<>>,
     <<SidebarLink(S_A, S_slashApiSlash \o S_rc30Slug \o S_execPage \o S_runHash),
       SidebarLink(S_a, S_quickstart)>>,
     <<SidebarGroup(S_Sprites,
                    <<SidebarLink(S_A, S_slashApiSlash \o S_devLatest \o S_slash),
                      SidebarGroup(S_Exec,
                                   <<SidebarLink(S_a, S_docsPrefix \o S_api)>>, TRUE)>>,
                    FALSE),
       SidebarLink(S_a, S_slashApiSlash \o S_rc30Slug \o S_execSubPage)>>}

InitRewrite ==
    /\ step = "input"
    /\ FormatIdle
    /\ PropertyIdle
    /\ types = NoTypes
    /\ EndpointIdle
    /\ RenderIdle
    /\ VersionIdle
    /\ FragmentIdle
    /\ RunIdle
    /\ CliIdle
    /\ RestIdle
    /\ givenUrl \in RewriteUrls
    /\ targetVersionId \in VersionIds
    /\ rewritten = EmptyString
    /\ sidebarEntries \in RewriteSidebars
    /\ transformed = <<>>

rewriteInputs ==
    <<formatVars, types, propertyVars, endpoint, sdk, renderVars, versionVars,
      fragmentVars, runVars, cliVars, restVars, givenUrl, targetVersionId,
      sidebarEntries>>

RewriteApiUrl ==
    /\ step = "input"
    /\ rewritten' = rewriteApiUrl(givenUrl, targetVersionId)
    /\ step' = "rewriteApiUrl"
    /\ UNCHANGED <<rewriteInputs, transformed>>

TransformSidebarForVersion ==
    /\ step = "input"
    /\ transformed' = transformSidebarForVersion(sidebarEntries, targetVersionId)
    /\ step' = "transformSidebarForVersion"
    /\ UNCHANGED <<rewriteInputs, rewritten>>

NextRewrite == RewriteApiUrl \/ TransformSidebarForVersion

SpecRewrite == InitRewrite /\ [][NextRewrite]_vars

\* the part of a URL before its hash, and its hash with the '#'
UrlPath(u) == IF includes(u, S_hash) THEN SubSeq(u, 1, indexOf(u, S_hash) - 1) ELSE u

UrlHash(u) == IF includes(u, S_hash) THEN slice(u, indexOf(u, S_hash) - 1) ELSE EmptyString

\* the URL has the form /api/{version}[/{page}][#{hash}]
IsVersionedApiUrl(u) ==
    /\ startsWith(UrlPath(u), S_slashApiSlash)
    /\ segmentLength(slice(UrlPath(u), Len(S_slashApiSlash))) >= 1

\* the page path of such a URL: what follows the version in its path
UrlPage(u) ==
    LET afterPrefix == slice(UrlPath(u), Len(S_slashApiSlash))
    IN  slice(afterPrefix, segmentLength(afterPrefix))

\* the URL with only its version segment replaced
VersionReplaced(u, target) ==
    IF IsVersionedApiUrl(u)
    THEN S_slashApiSlash \o versionToSlug(target) \o UrlPage(u) \o UrlHash(u)
    ELSE u

RECURSIVE LinksReplaced(_, _)
LinksReplaced(entries, target) ==
    [i \in DOMAIN entries |->
        IF entries[i].type = "link"
        THEN [entries[i] EXCEPT !.href = VersionReplaced(@, target)]
        ELSE [entries[i] EXCEPT !.entries = LinksReplaced(@, target)]]

\* C25: rewriteApiUrl replaces only the version segment of a URL of the form
\* /api/{version}[/{page}][#{hash}] by the slug of the target and keeps the
\* page path and the hash; any other URL is returned unchanged; and
\* transformSidebarForVersion does this to the links of a sidebar and changes
\* nothing else of the tree.
OnlyVersionSegmentRewritten ==
    /\ step = "rewriteApiUrl" => rewritten = VersionReplaced(givenUrl, targetVersionId)
    /\ step = "transformSidebarForVersion" =>
          transformed = LinksReplaced(sidebarEntries, targetVersionId)


\* ---------------------------------------------------------------------------
\* scripts/generate-cli-docs/help-parser.ts
\* ---------------------------------------------------------------------------

S_UsageHeader == <<"U", "s", "a", "g", "e", ":">>
S_OptionsHeader == <<"O", "p", "t", "i", "o", "n", "s", ":">>
S_NotesHeader == <<"N", "o", "t", "e", "s", ":">>
S_ExamplesHeader == <<"E", "x", "a", "m", "p", "l", "e", "s", ":">>
S_fourSpaces == <<" ", " ", " ", " ">>

\* the nodes of a regular expression: a character class or a literal character,
\* a sequence, an alternative a|b, a?, a*, a+ and a capturing group
ReChar(class) == [op |-> "char", class |-> class]
ReCat(items) == [op |-> "cat", items |-> items]
ReAlt(left, right) == [op |-> "alt", left |-> left, right |-> right]
ReOpt(of) == [op |-> "opt", of |-> of]
ReStar(of) == [op |-> "star", of |-> of]
RePlus(of) == ReCat(<<of, ReStar(of)>>)
ReGroup(index, of) == [op |-> "group", index |-> index, of |-> of]

\* whether a character is in a class: \w, \s, \S, [\w-], the dot, or itself
InClass(c, class) ==
    CASE class = "\\w" -> IsWordChar(c)
      [] class = "\\s" -> c \in WhiteSpace
      [] class = "\\S" -> c \notin WhiteSpace
      [] class = "[\\w-]" -> IsWordChar(c) \/ c = "-"
      [] class = "." -> c # "\n"
      [] OTHER -> c = class

\* the ways a node matches s from position i, best first as the backtracking
\* of the engine tries them: where each ends and the groups captured so far
RECURSIVE reMatches(_, _, _, _)
RECURSIVE reThen(_, _, _)
RECURSIVE reSequence(_, _, _)
reMatches(node, s, i, captured) ==
    LET here == <<[at |-> i, groups |-> captured]>>
        inner == reMatches(node.of, s, i, captured)
        Advances(r) == r.at > i
    IN  CASE node.op = "char" ->
                IF i <= Len(s) /\ InClass(s[i], node.class)
                THEN <<[at |-> i + 1, groups |-> captured]>>
                ELSE <<>>
          [] node.op = "cat" -> reSequence(node.items, s, here)
          [] node.op = "alt" ->
                reMatches(node.left, s, i, captured) \o reMatches(node.right, s, i, captured)
          [] node.op = "opt" -> inner \o here
          [] node.op = "star" -> reThen(SelectSeq(inner, Advances), node, s) \o here
          [] node.op = "group" ->
                [k \in DOMAIN inner |->
                    [at |-> inner[k].at,
                     groups |-> [inner[k].groups EXCEPT
                                    ![node.index] = <<SubSeq(s, i, inner[k].at - 1)>>]]]

\* the matches of a node after each of the matches found so far
reThen(found, node, s) ==
    IF found = <<>> THEN <<>>
    ELSE reMatches(node, s, Head(found).at, Head(found).groups)
            \o reThen(Tail(found), node, s)

\* the matches of a sequence of nodes
reSequence(items, s, found) ==
    IF items = <<>> THEN found
    ELSE reSequence(Tail(items), s, reThen(found, Head(items), s))

\* s.match(/^...$/) with n groups: <<>> for null, else the groups, each <<>>
\* when undefined and <<text>> when it took part in the match
match(s, node, n) ==
    LET found == reMatches(node, s, 1, [k \in 1..n |-> <<>>])
        Whole(r) == r.at = Len(s) + 1
        whole == SelectSeq(found, Whole)
    IN  IF whole = <<>> THEN <<>> ELSE <<whole[1].groups>>

\* a group of a match, '' for undefined (the code takes || '' or leaves undefined)
groupText(m, k) == IF m[1][k] = <<>> THEN EmptyString ELSE m[1][k][1]

ReSpaces == RePlus(ReChar("\\s"))

\* (?:\s+(\S+))? as group k
ReArgument(k) == ReOpt(ReCat(<<ReSpaces, ReGroup(k, RePlus(ReChar("\\S")))>>))

\* (?:\s+(.+))? as group k
ReDescription(k) == ReOpt(ReCat(<<ReSpaces, ReGroup(k, RePlus(ReChar(".")))>>))

\* (--[\w-]+)
ReLong == ReCat(<<ReChar("-"), ReChar("-"), RePlus(ReChar("[\\w-]"))>>)

\* /^(-\w)(?:,\s*|\s+)(--[\w-]+)?(?:\s+(\S+))?(?:\s+(.+))?$/
optionRegex ==
    ReCat(<<ReGroup(1, ReCat(<<ReChar("-"), ReChar("\\w")>>)),
            ReAlt(ReCat(<<ReChar(","), ReStar(ReChar("\\s"))>>), ReSpaces),
            ReOpt(ReGroup(2, ReLong)),
            ReArgument(3),
            ReDescription(4)>>)

\* /^(--[\w-]+)(?:\s+(\S+))?(?:\s+(.+))?$/
longOnlyRegex == ReCat(<<ReGroup(1, ReLong), ReArgument(2), ReDescription(3)>>)

\* /^-(\w+)(?:\s+(\w+))?$/
goStyleRegex ==
    ReCat(<<ReChar("-"), ReGroup(1, RePlus(ReChar("\\w"))),
            ReOpt(ReCat(<<ReSpaces, ReGroup(2, RePlus(ReChar("\\w")))>>))>>)

\* the option a line of the options section starts, <<>> when it starts none
newOption(trimmedLine) ==
    LET optionMatch == match(trimmedLine, optionRegex, 4)
        longOnlyMatch == match(trimmedLine, longOnlyRegex, 3)
        goStyleMatch == match(trimmedLine, goStyleRegex, 2)
        flagName == groupText(goStyleMatch, 1)
        flagType == groupText(goStyleMatch, 2)
    IN  IF optionMatch # <<>>
        THEN <<ParsedOption(groupText(optionMatch, 1),
                            IF TruthyString(groupText(optionMatch, 2))
                            THEN groupText(optionMatch, 2) ELSE groupText(optionMatch, 1),
                            groupText(optionMatch, 3), groupText(optionMatch, 4))>>
        ELSE IF longOnlyMatch # <<>>
        THEN <<ParsedOption(EmptyString, groupText(longOnlyMatch, 1),
                            groupText(longOnlyMatch, 2), groupText(longOnlyMatch, 3))>>
        ELSE IF goStyleMatch # <<>>
        THEN <<ParsedOption(<<"-", flagName[1]>>, <<"-", "-">> \o flagName,
                            IF TruthyString(flagType)
                            THEN <<"<">> \o flagType \o <<">">> ELSE EmptyString,
                            EmptyString)>>
        ELSE <<>>

\* a parser that forgets the pending option
dropPending(options, pending) == options

\* if (currentOption?.long) result.options.push(currentOption)
savePending(options, pending) ==
    IF pending # <<>> /\ TruthyString(pending[1].long)
    THEN Append(options, pending[1])
    ELSE options

\* the loop variables of parseHelpOutput
ParserState(result, section, option) ==
    [result |-> result, section |-> section, option |-> option]

\* parseOptionLine(line, trimmedLine, result, currentOption, setCurrentOption)
parseOptionLine(line, trimmedLine, st) ==
    LET started == newOption(trimmedLine)
    IN  IF started # <<>>
        THEN ParserState([st.result EXCEPT !.options = savePending(@, st.option)],
                         st.section, started)
        ELSE IF (startsWith(line, <<"\t">>) \/ startsWith(line, S_fourSpaces))
                /\ st.option # <<>>
        THEN [st EXCEPT !.option[1].description =
                            IF TruthyString(@) THEN @ \o <<" ">> \o trimmedLine
                            ELSE trimmedLine]
        ELSE st

\* the body of the loop of parseHelpOutput for one line
parseLine(st, line) ==
    LET trimmedLine == trim(line)
        usagePart == trim(replaceFirst(trimmedLine, S_UsageHeader, EmptyString))
    IN  IF ~TruthyString(trimmedLine) /\ st.section = "none"
           /\ ~TruthyString(st.result.description)
        THEN st
        ELSE IF st.section = "none" /\ ~TruthyString(st.result.description)
                /\ TruthyString(trimmedLine)
        THEN [st EXCEPT !.result.description = trimmedLine]
        ELSE IF startsWith(trimmedLine, S_UsageHeader)
        THEN [st EXCEPT !.section = "usage",
                        !.result.usage = IF TruthyString(usagePart) THEN usagePart ELSE @]
        ELSE IF startsWith(trimmedLine, S_OptionsHeader)
        THEN ParserState([st.result EXCEPT !.options = savePending(@, st.option)],
                         "options", <<>>)
        ELSE IF startsWith(trimmedLine, S_NotesHeader)
        THEN ParserState([st.result EXCEPT !.options = savePending(@, st.option)],
                         "notes", <<>>)
        ELSE IF startsWith(trimmedLine, S_ExamplesHeader)
        THEN [st EXCEPT !.section = "examples"]
        ELSE CASE st.section = "usage" ->
                    IF TruthyString(trimmedLine) /\ ~TruthyString(st.result.usage)
                    THEN [st EXCEPT !.result.usage = trimmedLine]
                    ELSE IF TruthyString(trimmedLine)
                    THEN [st EXCEPT !.result.usage = @ \o <<" ">> \o trimmedLine]
                    ELSE st
               [] st.section = "options" -> parseOptionLine(line, trimmedLine, st)
               [] st.section = "notes" ->
                    IF TruthyString(trimmedLine)
                    THEN [st EXCEPT !.result.notes = Append(@, trimmedLine)]
                    ELSE st
               [] st.section = "examples" ->
                    IF TruthyString(trimmedLine)
                    THEN [st EXCEPT !.result.examples = Append(@, trimmedLine)]
                    ELSE st
               [] OTHER -> st

\* ---------------------------------------------------------------------------
\* parseHelpOutput, one line at a time
\* ---------------------------------------------------------------------------

MaxLines == 4

S_helpFirstLine ==
    <<"C", "r", "e", "a", "t", "e", " ", "a", " ", "s", "p", "r", "i", "t", "e">>
S_helpUsage ==
    <<"U", "s", "a", "g", "e", ":", " ", "s", "p", "r", "i", "t", "e", " ", "c",
      "r", "e", "a", "t", "e">>
S_helpOptionLine ==
    <<" ", " ", "-", "h", ",", " ", "-", "-", "h", "e", "l", "p", " ", " ", "S",
      "h", "o", "w", " ", "h", "e", "l", "p">>
S_longOnlyLine ==
    <<" ", " ", "-", "-", "o", "r", "g", " ", "s", "t", "r", "i", "n", "g">>
S_goStyleLine == <<" ", " ", "-", "d", "e", "b", "u", "g">>
S_continuationLine ==
    <<" ", " ", " ", " ", "m", "o", "r", "e", " ", "t", "e", "x", "t">>
S_plainLine == <<"p", "l", "a", "i", "n">>

\* the lines a help output is made of: a description, the four headers, an
\* option of each of the three forms, a continuation line, a line that is none
\* of these and the empty line
HelpLineChoices ==
    {S_helpFirstLine, S_helpUsage, S_OptionsHeader, S_NotesHeader, S_ExamplesHeader,
     S_helpOptionLine, S_longOnlyLine, S_goStyleLine, S_continuationLine, S_plainLine,
     EmptyString}

\* output.split('\n') of the outputs: any non-empty sequence of such lines
HelpLineLists == SeqsUpTo(HelpLineChoices, MaxLines) \ {<<>>}

InitParser ==
    /\ step = "input"
    /\ FormatIdle
    /\ PropertyIdle
    /\ types = NoTypes
    /\ EndpointIdle
    /\ RenderIdle
    /\ VersionIdle
    /\ FragmentIdle
    /\ RunIdle
    /\ CliIdle
    /\ RewriteIdle
    /\ CommandIdle
    /\ GroupingIdle
    /\ helpLines \in HelpLineLists
    /\ lineNo = 0
    /\ parseResult = ParsedHelp(EmptyString, EmptyString, <<>>, <<>>, <<>>)
    /\ currentSection = "none"
    /\ currentOption = <<>>

parserInputs ==
    <<formatVars, types, propertyVars, endpoint, sdk, renderVars, versionVars,
      fragmentVars, runVars, cliVars, rewriteVars, commandVars, groupingVars,
      helpLines>>

\* one turn of the loop over the lines
ParseLine ==
    /\ step \in {"input", "parseLine"}
    /\ lineNo < Len(helpLines)
    /\ LET st == parseLine(ParserState(parseResult, currentSection, currentOption),
                           helpLines[lineNo + 1])
       IN  /\ parseResult' = st.result
           /\ currentSection' = st.section
           /\ currentOption' = st.option
    /\ lineNo' = lineNo + 1
    /\ step' = "parseLine"
    /\ UNCHANGED parserInputs

\* after the loop: the pending option is saved and the result returned
ParseHelpOutputReturns ==
    /\ step = "parseLine"
    /\ lineNo = Len(helpLines)
    /\ parseResult' = [parseResult EXCEPT !.options = savePending(@, currentOption)]
    /\ step' = "parseHelpOutput"
    /\ UNCHANGED <<parserInputs, lineNo, currentSection, currentOption>>

NextParser == ParseLine \/ ParseHelpOutputReturns

SpecParser == InitParser /\ [][NextParser]_vars

\* the first line with text, which becomes the description; 0 when there is none
descriptionLine ==
    IF \E i \in DOMAIN helpLines : TruthyString(trim(helpLines[i]))
    THEN CHOOSE i \in DOMAIN helpLines :
            /\ TruthyString(trim(helpLines[i]))
            /\ \A j \in 1..(i - 1) : ~TruthyString(trim(helpLines[j]))
    ELSE 0

\* the section a line after the description opens, "none" when it is no header
headerOf(i) ==
    LET text == trim(helpLines[i])
    IN  IF descriptionLine = 0 \/ i <= descriptionLine THEN "none"
        ELSE IF startsWith(text, S_UsageHeader) THEN "usage"
        ELSE IF startsWith(text, S_OptionsHeader) THEN "options"
        ELSE IF startsWith(text, S_NotesHeader) THEN "notes"
        ELSE IF startsWith(text, S_ExamplesHeader) THEN "examples"
        ELSE "none"

\* the section line i lies in: the one the last header before it opened
sectionOf(i) ==
    LET headers == {j \in 1..(i - 1) : headerOf(j) # "none"}
    IN  IF headers = {} THEN "none"
        ELSE headerOf(CHOOSE j \in headers : \A k \in headers : k <= j)

\* the lines among the first n that an options section recognises as an option
RecognisedLines(n) ==
    {i \in 1..n :
        /\ descriptionLine # 0 /\ i > descriptionLine
        /\ headerOf(i) = "none"
        /\ sectionOf(i) = "options"
        /\ newOption(trim(helpLines[i])) # <<>>}

\* the flags and argument of an option, which no later line changes
OptionKey(option) ==
    [short |-> option.short, long |-> option.long, argument |-> option.argument]

\* the options the lines in S start, in the order of the lines
RECURSIVE RecognisedOptions(_)
RecognisedOptions(S) ==
    IF S = {} THEN <<>>
    ELSE LET last == CHOOSE i \in S : \A j \in S : j <= i
         IN  Append(RecognisedOptions(S \ {last}),
                    OptionKey(newOption(trim(helpLines[last]))[1]))

KeysOf(options) == [k \in DOMAIN options |-> OptionKey(options[k])]

\* C28: while parseHelpOutput reads the lines, the options pushed so far
\* followed by the pending one are the options recognised in an options section
\* among the lines read, once each and in the order of the lines; when it
\* returns, result.options alone are the recognised options of all the lines.
OptionsKeptInOrder ==
    /\ step = "parseLine" =>
          KeysOf(parseResult.options \o currentOption)
             = RecognisedOptions(RecognisedLines(lineNo))
    /\ step = "parseHelpOutput" =>
          KeysOf(parseResult.options) = RecognisedOptions(RecognisedLines(Len(helpLines)))

\* C28 witness: an option was pending when an Examples header, the last line,
\* arrived, and is in the result once returned
OptionFollowedByHeaders ==
    /\ step = "parseHelpOutput"
    /\ Len(helpLines) = 4
    /\ helpLines[2] = S_OptionsHeader
    /\ helpLines[3] = S_helpOptionLine
    /\ helpLines[4] = S_ExamplesHeader
    /\ Len(parseResult.options) = 1


\* ---------------------------------------------------------------------------
\* generateVersionDocs: the grouping loop, one endpoint at a time
\* ---------------------------------------------------------------------------

S_constructor == <<"c", "o", "n", "s", "t", "r", "u", "c", "t", "o", "r">>
S_toString == <<"t", "o", "S", "t", "r", "i", "n", "g">>
S_valueOf == <<"v", "a", "l", "u", "e", "O", "f">>
S_hasOwnProperty ==
    <<"h", "a", "s", "O", "w", "n", "P", "r", "o", "p", "e", "r", "t", "y">>
S_proto == <<"_", "_", "p", "r", "o", "t", "o", "_", "_">>
S_pushIsNotAFunction ==
    <<"e", "n", "d", "p", "o", "i", "n", "t", "s", "B", "y", "C", "a", "t", "e",
      "g", "o", "r", "y", "[", "c", "a", "t", "e", "g", "o", "r", "y", "]", ".",
      "p", "u", "s", "h", " ", "i", "s", " ", "n", "o", "t", " ", "a", " ", "f",
      "u", "n", "c", "t", "i", "o", "n">>

\* the most endpoints of a schema given to the grouping loop
MaxGrouped == 3

\* names every object literal {} answers through Object.prototype
ObjectPrototypeMembers ==
    {S_constructor, S_toString, S_valueOf, S_hasOwnProperty, S_proto}

\* !endpointsByCategory[category]: neither an own list nor an inherited member
missingProperty(byCategory, category) ==
    category \notin DOMAIN byCategory /\ category \notin ObjectPrototypeMembers

\* if (!endpointsByCategory[category]) endpointsByCategory[category] = []
ensureCategory(byCategory, category) ==
    IF missingProperty(byCategory, category)
    THEN [c \in DOMAIN byCategory \cup {category} |->
            IF c = category THEN <<>> ELSE byCategory[c]]
    ELSE byCategory

\* the endpoints with and without a category, and one named as a member of
\* Object.prototype
GroupedEndpoints ==
    {APIEndpoint(name, S_spritePath, S_GET, category, NoDescriptor, NoDescriptor,
                 <<>>, Undefined) :
        name \in {S_ListSprites, S_execWebSocket},
        category \in {EmptyString, S_proxy, S_a, S_constructor}}

InitGrouping ==
    /\ step = "input"
    /\ FormatIdle
    /\ PropertyIdle
    /\ types = NoTypes
    /\ EndpointIdle
    /\ RenderIdle
    /\ schemaEndpoints \in SeqsUpTo(GroupedEndpoints, MaxGrouped)
    /\ versionId \in VersionIds
    /\ categories = <<>>
    /\ endpointsByCategory = <<>>
    /\ pages = <<>>
    /\ sidebarItems = <<>>
    /\ FragmentIdle
    /\ RunIdle
    /\ CliIdle
    /\ RewriteIdle
    /\ ParserIdle
    /\ CommandIdle
    /\ GroupingIdle

groupingInputs ==
    <<formatVars, types, propertyVars, endpoint, sdk, renderVars, schemaEndpoints,
      versionId, pages, sidebarItems, fragmentVars, runVars, cliVars, rewriteVars,
      parserVars, commandVars>>

\* one turn of the loop: the list of the category is created when the object
\* answers nothing for it, and the endpoint pushed on what the object answers
GroupEndpoint ==
    /\ step \in {"input", "groupEndpoint"}
    /\ groupIndex < Len(schemaEndpoints)
    /\ LET ep == schemaEndpoints[groupIndex + 1]
           category == categoryOf(ep)
           ensured == ensureCategory(endpointsByCategory, category)
       IN  IF category \in DOMAIN ensured
           THEN /\ endpointsByCategory' = [ensured EXCEPT ![category] = Append(@, ep)]
                /\ groupIndex' = groupIndex + 1
                /\ step' = "groupEndpoint"
                /\ UNCHANGED groupError
           ELSE /\ groupError' = S_pushIsNotAFunction
                /\ step' = "thrown"
                /\ UNCHANGED <<endpointsByCategory, groupIndex>>
    /\ UNCHANGED <<groupingInputs, categories>>

\* after the loop: Object.keys(endpointsByCategory).sort()
SortCategories ==
    /\ step \in {"input", "groupEndpoint"}
    /\ groupIndex = Len(schemaEndpoints)
    /\ categories' = sortedCategories(endpointsByCategory)
    /\ step' = "grouped"
    /\ UNCHANGED <<groupingInputs, endpointsByCategory, groupingVars>>

NextGrouping == GroupEndpoint \/ SortCategories

SpecGrouping == InitGrouping /\ [][NextGrouping]_vars

\* the endpoints of category c in schema order
InSchemaOrder(c) ==
    LET OfCategory(ep) == categoryOf(ep) = c
    IN  SelectSeq(schemaEndpoints, OfCategory)

\* the grouping of a schema is a partition of its endpoints
IsPartition ==
    /\ \A i \in DOMAIN schemaEndpoints :
          categoryOf(schemaEndpoints[i]) \in DOMAIN endpointsByCategory
    /\ \A c \in DOMAIN endpointsByCategory :
          /\ endpointsByCategory[c] # <<>>
          /\ endpointsByCategory[c] = InSchemaOrder(c)
    /\ categories = sortStrings(DOMAIN endpointsByCategory)
    /\ \A k \in 1..(Len(categories) - 1) : stringLess(categories[k], categories[k + 1])

\* C29: the grouping loop of generateVersionDocs runs to its end for every
\* schema, and the grouping is then a partition of the schema's endpoints:
\* each endpoint is in the list of its own category ('other' when it has
\* none) and in no other, each list is non-empty and in schema order, and
\* the category list is the sorted set of keys.
GroupingIsPartition ==
    /\ step # "thrown"
    /\ step = "grouped" => IsPartition


\* ---------------------------------------------------------------------------
\* scripts/generate-cli-docs/cli-runner.ts: runCommand
\* ---------------------------------------------------------------------------

S_commandTimedOut ==
    <<"\n", "C", "o", "m", "m", "a", "n", "d", " ", "t", "i", "m", "e", "d", " ",
      "o", "u", "t">>
S_spawnENOENT ==
    <<"s", "p", "a", "w", "n", " ", "s", "p", "r", "i", "t", "e", " ", "E", "N",
      "O", "E", "N", "T">>
S_outChunk == <<"o">>
S_errChunk == <<"e">>

\* the most chunks each of the two streams delivers
MaxChunks == 2

\* a CommandResult, without its duration
CommandResult(success, out, err, code) ==
    [success |-> success, stdout |-> out, stderr |-> err, exitCode |-> code]

\* the codes the close event carries: an exit code, or null (written -1) when
\* a signal ended the process
CloseCodes == {-1, 0, 1, 124}

\* code ?? 1
exitCodeOf(code) == IF code = -1 THEN 1 ELSE code

\* resolve(result): the first call settles the promise, a later one does nothing
resolve(settled, result) == IF settled = <<>> THEN <<result>> ELSE settled

\* a handler that leaves the timer armed
timerKept(t) == t

\* clearTimeout(timer): a timer that has not fired never will
clearTimeout(t) == IF t = "armed" THEN "cleared" ELSE t

\* the state the executor of the promise leaves: the process spawned, the
\* handlers registered and the timer armed
InitCommand ==
    /\ step = "input"
    /\ FormatIdle
    /\ PropertyIdle
    /\ types = NoTypes
    /\ EndpointIdle
    /\ RenderIdle
    /\ VersionIdle
    /\ FragmentIdle
    /\ RunIdle
    /\ CliIdle
    /\ RewriteIdle
    /\ ParserIdle
    /\ GroupingIdle
    /\ timer = "armed"
    /\ procEvents = {}
    /\ signals = <<>>
    /\ stdout = EmptyString
    /\ stderr = EmptyString
    /\ promise = <<>>
    /\ resolveCalls = <<>>

commandInputs ==
    <<formatVars, types, propertyVars, endpoint, sdk, renderVars, versionVars,
      fragmentVars, runVars, cliVars, rewriteVars, parserVars, groupingVars>>

\* proc.stdout.on('data'): the streams deliver data until the process closes
StdoutData ==
    /\ "close" \notin procEvents
    /\ Len(stdout) < MaxChunks
    /\ stdout' = stdout \o S_outChunk
    /\ step' = "stdoutData"
    /\ UNCHANGED <<commandInputs, timer, procEvents, signals, stderr, promise, resolveCalls>>

\* proc.stderr.on('data')
StderrData ==
    /\ "close" \notin procEvents
    /\ Len(stderr) < MaxChunks
    /\ stderr' = stderr \o S_errChunk
    /\ step' = "stderrData"
    /\ UNCHANGED <<commandInputs, timer, procEvents, signals, stdout, promise, resolveCalls>>

\* the callback of setTimeout
TimerFires ==
    /\ timer = "armed"
    /\ timer' = "fired"
    /\ signals' = Append(signals, "SIGTERM")
    /\ LET result == CommandResult(FALSE, stdout, stderr \o S_commandTimedOut, 124)
       IN  /\ promise' = resolve(promise, result)
           /\ resolveCalls' = Append(resolveCalls, [from |-> "timeout", result |-> result])
    /\ step' = "timeout"
    /\ UNCHANGED <<commandInputs, procEvents, stdout, stderr>>

\* proc.on('close'): once, with the exit code or null
ProcClose ==
    /\ "close" \notin procEvents
    /\ \E code \in CloseCodes :
          LET result == CommandResult(code = 0, stdout, stderr, exitCodeOf(code))
          IN  /\ promise' = resolve(promise, result)
              /\ resolveCalls' = Append(resolveCalls, [from |-> "close", result |-> result])
    /\ procEvents' = procEvents \cup {"close"}
    /\ timer' = clearTimeout(timer)
    /\ step' = "close"
    /\ UNCHANGED <<commandInputs, signals, stdout, stderr>>

\* proc.on('error'): the process could not be spawned or could not be killed
ProcError ==
    /\ procEvents = {}
    /\ LET result == CommandResult(FALSE, stdout, S_spawnENOENT, 1)
       IN  /\ promise' = resolve(promise, result)
           /\ resolveCalls' = Append(resolveCalls, [from |-> "error", result |-> result])
    /\ procEvents' = procEvents \cup {"error"}
    /\ timer' = clearTimeout(timer)
    /\ step' = "error"
    /\ UNCHANGED <<commandInputs, signals, stdout, stderr>>

NextCommand == StdoutData \/ StderrData \/ TimerFires \/ ProcClose \/ ProcError

SpecCommand == InitCommand /\ [][NextCommand]_vars

\* the calls of resolve made by the timer callback
TimeoutCalls == {k \in DOMAIN resolveCalls : resolveCalls[k].from = "timeout"}

\* C30: the promise of runCommand holds at most one CommandResult, the one of
\* the first of timeout, close and error: pending until the first resolve
\* call and the result of that call ever after.  When the timeout is first
\* the result is success=false with exit code 124, SIGTERM was sent, and a
\* later close leaves it as it is; when close or error is first the timer is
\* cleared and the timer callback never produces a result.
FirstEventDecides ==
    /\ (promise = <<>>) = (resolveCalls = <<>>)
    /\ resolveCalls # <<>> =>
          /\ promise = <<resolveCalls[1].result>>
          /\ IF resolveCalls[1].from = "timeout"
             THEN /\ promise[1].success = FALSE
                  /\ promise[1].exitCode = 124
                  /\ signals = <<"SIGTERM">>
                  /\ timer = "fired"
                  /\ TimeoutCalls = {1}
             ELSE /\ timer = "cleared"
                  /\ signals = <<>>
                  /\ TimeoutCalls = {}

\* C30 witness: the timeout came first and the process closed afterwards
ClosedAfterTimeout ==
    /\ step = "close"
    /\ Len(resolveCalls) = 2
    /\ resolveCalls[1].from = "timeout"
    /\ resolveCalls[2].result.exitCode = 1
    /\ promise[1].exitCode = 124

=============================================================================
